---- MODULE Spec2Model ----
(***************************************************************************)
(* A model of the travel-destination recommender: the ranker               *)
(* (WeatherService.rankDistricts), the fleet fetch                         *)
(* (WeatherService.GetTopCoolestAndCleanest), the TTL cache around it      *)
(* (CachedWeatherService) with its warm-up and background refresh loop,    *)
(* the top-destinations handler, the fleet fetch goroutine by goroutine,    *)
(* fetchDistrictData call by call, and TravelService.GetRecommendation.    *)
(*                                                                         *)
(* Time is counted in ticker periods: one unit is cacheTTL / 2, the        *)
(* interval of the background ticker, so the TTL is 2 units.               *)
(***************************************************************************)
EXTENDS Integers, Sequences, FiniteSets, TLC

\* ------------------------------------------------------------------------
\* Bounds of the model
\* ------------------------------------------------------------------------

\* Number of tracked points (districts) handed to NewCachedWeatherService.
NumDistricts == 11

\* The clock stops after this many ticker periods.
MaxTime == 3

\* The longest slice handed to rankDistricts directly.
MaxRankLen == 11

\* Number of points of a fleet fetch watched goroutine by goroutine.
NumFleetPoints == 6

\* The latest travel date requested, in days after today.
MaxDayOffset == 16

\* ------------------------------------------------------------------------
\* Program constants
\* ------------------------------------------------------------------------

\* districts[:10] in rankDistricts.
TopN == 10

\* cacheTTL, in ticker periods (the ticker period is cacheTTL / 2).
TTL == 2

\* HTTP statuses written by GetTopDestinations and by the recovery handler.
StatusOK == 200

StatusInternalServerError == 500

StatusGatewayTimeout == 504

\* ------------------------------------------------------------------------
\* Data
\* ------------------------------------------------------------------------

Districts == 1 .. NumDistricts

\* The zero value of types.DistrictWeather (ID "", Name "", 0, 0, Rank 0).
ZeroRec == [id |-> 0, temp |-> 0, pm |-> 0, rank |-> 0]

\* The value the temperature provider reduces to for district d
\* (fetchTemperature's result on success).
TempOf(d) == 20 + ((3 * d) % 5)

\* The value the air-quality provider reduces to for district d
\* (fetchAirQuality's result on success).
PM25Of(d) == 30 + (d % 3)

\* The record the collector appends for a successful point: rank unset.
RecOf(d) == [id |-> d, temp |-> TempOf(d), pm |-> PM25Of(d), rank |-> 0]

\* ------------------------------------------------------------------------
\* sort.Slice with rankDistricts' less function
\* ------------------------------------------------------------------------

\* The comparison with the tie-break on PM2.5 left out.
LessByTempOnly(a, b) == a.temp < b.temp

\* The comparison closure handed to sort.Slice.
Less(a, b) ==
  IF a.temp # b.temp THEN a.temp < b.temp ELSE a.pm < b.pm

\* Insert r into the sorted sequence s behind every element it is not
\* less than (the inner loop of insertion sort, which moves data[j] down
\* while less(data[j], data[j-1])).
RECURSIVE InsertSorted(_, _)
InsertSorted(s, r) ==
  IF s = << >> THEN << r >>
  ELSE IF Less(r, s[Len(s)]) THEN Append(InsertSorted(SubSeq(s, 1, Len(s) - 1), r), s[Len(s)])
  ELSE Append(s, r)

\* insertionSort_func: the elements are inserted one by one, from the left.
RECURSIVE insertionSort(_)
insertionSort(s) ==
  IF s = << >> THEN << >>
  ELSE InsertSorted(insertionSort(SubSeq(s, 1, Len(s) - 1)), s[Len(s)])

\* pdqsort_func sorts a range of at most this many elements by insertion.
maxInsertion == 12

\* data.Swap(i, j)
Swap(s, i, j) == [s EXCEPT ![i] = s[j], ![j] = s[i]]

\* order2_func: (x, y) with s[x] <= s[y], and the swaps counted so far.
order2(s, a, b, swaps) ==
  IF Less(s[b], s[a]) THEN [x |-> b, y |-> a, swaps |-> swaps + 1]
  ELSE [x |-> a, y |-> b, swaps |-> swaps]

\* median_func: the index of the median of s[a], s[b], s[c].
median(s, a, b, c) ==
  LET o1 == order2(s, a, b, 0)
      o2 == order2(s, o1.y, c, o1.swaps)
      o3 == order2(s, o1.x, o2.x, o2.swaps)
  IN [pivot |-> o3.y, swaps |-> o3.swaps]

\* choosePivot_func on the whole of s, for 8 <= Len(s) < 50: the median of
\* the elements at l/4, 2l/4 and 3l/4 (counted from 0); no swap counted
\* hints that s is increasing.
choosePivot(s) ==
  LET q == Len(s) \div 4
  IN median(s, 1 + q, 1 + 2 * q, 1 + 3 * q)

\* partialInsertionSort_func on fewer than 50 elements changes nothing and
\* reports whether s is sorted already.
partialInsertionSort(s) ==
  \A i \in 2 .. Len(s) : ~Less(s[i], s[i - 1])

\* for i <= j && data.Less(i, a) { i++ }
RECURSIVE ScanUp(_, _, _)
ScanUp(s, i, j) ==
  IF i <= j /\ Less(s[i], s[1]) THEN ScanUp(s, i + 1, j) ELSE i

\* for i <= j && !data.Less(j, a) { j-- }
RECURSIVE ScanDown(_, _, _)
ScanDown(s, i, j) ==
  IF i <= j /\ ~Less(s[j], s[1]) THEN ScanDown(s, i, j - 1) ELSE j

\* The loop of partition_func, the pivot standing at the front of s.
RECURSIVE PartitionLoop(_, _, _)
PartitionLoop(s, i, j) ==
  LET i2 == ScanUp(s, i, j)
      j2 == ScanDown(s, i2, j)
  IN IF i2 > j2 THEN [s |-> s, mid |-> j2]
     ELSE PartitionLoop(Swap(s, i2, j2), i2 + 1, j2 - 1)

\* partition_func on the whole of s: the pivot is swapped to the front, the
\* rest is partitioned around it, and the pivot is swapped to its place.
partition(s, pivot) ==
  LET r == PartitionLoop(Swap(s, 1, pivot), 2, Len(s))
  IN [s |-> Swap(r.s, r.mid, 1), mid |-> r.mid]

\* pdqsort_func on the whole of a slice s of maxInsertion + 1 elements:
\* choose the pivot, return when s is found sorted, else partition; both
\* sides then have at most maxInsertion elements and are sorted by
\* insertion.
pdqsort(s) ==
  LET cp == choosePivot(s)
  IN IF cp.swaps = 0 /\ partialInsertionSort(s) THEN s
     ELSE LET p == partition(s, cp.pivot)
          IN insertionSort(SubSeq(p.s, 1, p.mid - 1))
               \o << p.s[p.mid] >>
               \o insertionSort(SubSeq(p.s, p.mid + 1, Len(s)))

\* sort.Slice (Go 1.23): pdqsort_func, which sorts a slice of at most 12
\* elements by insertion. Slices of up to maxInsertion + 1 elements are
\* modelled.
SortSlice(s) ==
  IF Len(s) <= maxInsertion THEN insertionSort(s) ELSE pdqsort(s)

\* ------------------------------------------------------------------------
\* rankDistricts
\* ------------------------------------------------------------------------

\* A slice is a backing array (arr, of length cap) and a length (len).
\* rankDistricts sorts the first len elements in place, reslices the
\* backing array to its first 10 elements, which panics when the capacity
\* is below 10, and stamps the ranks in place.
rankDistricts(arr, len) ==
  IF len = 0 THEN [panic |-> FALSE, arr |-> arr, len |-> 0]
  ELSE LET sorted == SortSlice(SubSeq(arr, 1, len)) \o SubSeq(arr, len + 1, Len(arr))
       IN IF Len(arr) < TopN
          THEN [panic |-> TRUE, arr |-> sorted, len |-> len]
          ELSE [panic |-> FALSE,
                arr |-> [i \in 1 .. Len(arr) |->
                           IF i <= TopN THEN [sorted[i] EXCEPT !.rank = i] ELSE sorted[i]],
                len |-> TopN]

\* ------------------------------------------------------------------------
\* WeatherService.GetTopCoolestAndCleanest (the fleet fetch)
\* ------------------------------------------------------------------------

\* The capacity of a slice grown from nil by n appends of a DistrictWeather
\* (56 bytes, with pointers), on the Go release the README asks for: below
\* 256 elements growslice doubles the capacity and rounds the allocation up
\* to a size class of the allocator; an allocation of more than 512 bytes
\* carries an 8-byte header inside its class. 1, 2, 4, 8, 18, 36: sixteen
\* elements are 896 bytes, 904 with the header, which takes the class of
\* 1024 and leaves room for 18.
RECURSIVE GrowCap(_, _)
GrowCap(c, n) ==
  IF c >= n THEN c
  ELSE LET classes == << 8, 16, 24, 32, 48, 64, 80, 96, 112, 128, 144, 160, 176, 192,
                         208, 224, 240, 256, 288, 320, 352, 384, 416, 448, 480, 512,
                         576, 640, 704, 768, 896, 1024, 1152, 1280, 1408, 1536, 1792,
                         2048 >>
           size    == 2 * c * 56
           header  == IF size > 512 THEN 8 ELSE 0
           RECURSIVE from(_)
           from(i) == IF classes[i] >= size + header THEN classes[i] ELSE from(i + 1)
           class   == from(1)
       IN GrowCap((class - header) \div 56, n)

AppendCap(n) == IF n = 0 THEN 0 ELSE GrowCap(1, n)

\* The points whose two provider calls both succeed, in the order their
\* results arrive on the results channel: the first k points of the list,
\* in list order or in reverse.
Arrivals(k, rev) ==
  [i \in 1 .. k |-> IF rev THEN k + 1 - i ELSE i]

\* districtWeathers after the collector loop: one record per successful
\* point, appended in arrival order to a nil slice.
Collect(order) ==
  LET n == Len(order)
  IN [arr |-> [i \in 1 .. AppendCap(n) |-> IF i <= n THEN RecOf(order[i]) ELSE ZeroRec],
      len |-> n]

\* The fleet fetch as a whole: collect, rank, return (ranked, nil).
\* There is no path on which it returns a non-nil error.
FleetFetch(order) ==
  LET dw == Collect(order)
      r  == rankDistricts(dw.arr, dw.len)
  IN [panic |-> r.panic, arr |-> r.arr, len |-> r.len, err |-> "nil"]

\* ------------------------------------------------------------------------
\* The process: Run, the cache, its callers
\* ------------------------------------------------------------------------

\* The goroutines that call CachedWeatherService.GetTopCoolestAndCleanest:
\* Run itself (through WarmCache), the background refresh loop, and the
\* request handlers.
Handlers == {"h1"}

Callers == {"main", "bg"} \cup Handlers

\* Names of backing arrays. Arrays nothing refers to are collected, so one
\* per caller and one for the cache are enough.
ArrayIds == 1 .. (Cardinality(Callers) + 1)

\* A nil slice.
NilSlice == [arr |-> 0, len |-> 0]

\* What a caller holds before GetTopCoolestAndCleanest has returned to it.
NoRet == [data |-> NilSlice, err |-> "none", how |-> "none"]

VARIABLES
  phase,        \* Run: "warm" (WarmCache), "serve", "crashed" (unrecovered panic)
  pc,           \* each caller's position in GetTopCoolestAndCleanest
  cache,        \* c.cache: a slice, NilSlice when nil
  lastUpdated,  \* c.lastUpdated
  updating,     \* c.updating
  heap,         \* the contents of each backing array
  fetched,      \* data of the caller's fleet fetch, until it is stored
  ret,          \* what GetTopCoolestAndCleanest returned to each caller
  expired,      \* whether the handler's context deadline expired in its fetch
  status,       \* the HTTP status a handler answered with (0: none yet)
  now,          \* the clock, in ticker periods
  ticked,       \* whether the ticker's tick of this period has been consumed
  rankIn,       \* the slice a direct call of rankDistricts is given
  rankOut,      \* what that call produced
  fleetIn,      \* fleet fetch: how each point's provider calls will end
  task,         \* fleet fetch: each point goroutine's position
  calls,        \* fleet fetch: each point's provider calls in flight
  semaphore,    \* fleet fetch: the slots taken in the semaphore channel
  districtWeathers, \* fleet fetch: the points the collector has appended
  failed,       \* fleet fetch: the points the collector has skipped and logged
  results,      \* fleet fetch: the results channel's buffer, oldest first
  closed,       \* fleet fetch: whether the results channel has been closed
  fleetOut,     \* fleet fetch: how the call ended
  pointIn,      \* fetchDistrictData alone: the point and how its calls end
  local,        \* fetchDistrictData alone: its variables and wait group
  pointOut,     \* fetchDistrictData alone: what it returned
  travelReq,    \* GetRecommendation: the request and the providers' answers
  travelPc,     \* GetRecommendation: "called", "fetching" or "returned"
  travelGot,    \* GetRecommendation: what each provider call returned
  travelCalls,  \* GetRecommendation: the provider calls issued
  travelOut,    \* GetRecommendation: what it returned (values in hundredths,
                \* the reason as the sequence of its phrases)
  hourly,       \* a provider's decoded response: data.Hourly
  reduced,      \* what each mode's fetch function made of it
  httpReq,      \* POST /api/v1/travel/recommendation: the decoded body
  httpOut,      \* POST /api/v1/travel/recommendation: the response written
  loopCancelled, \* StartBackgroundRefresh: whether its ctx has been cancelled
  mu            \* c.mu: who holds it for writing, who holds it for reading

cacheVars == << phase, pc, cache, lastUpdated, updating, heap, fetched, ret,
                expired, status, now, ticked >>

rankVars == << rankIn, rankOut >>

fleetVars == << fleetIn, task, calls, semaphore, districtWeathers, failed, results, closed, fleetOut >>

vars == << phase, pc, cache, lastUpdated, updating, heap, fetched, ret,
           expired, status, now, ticked, rankIn, rankOut,
           fleetIn, task, calls, semaphore, districtWeathers, failed, results, closed, fleetOut,
           pointIn, local, pointOut,
           travelReq, travelPc, travelGot, travelCalls, travelOut,
           hourly, reduced, httpReq, httpOut, loopCancelled, mu >>

pointVars == << pointIn, local, pointOut >>

travelVars == << travelReq, travelPc, travelGot, travelCalls, travelOut >>

reduceVars == << hourly, reduced >>

httpVars == << httpReq, httpOut >>

loopVars == << loopCancelled >>

lockVars == << mu >>

\* The zero value of sync.RWMutex: nobody holds it.
MuFree == [writer |-> "none", readers |-> {}]

\* NewCachedWeatherService: no cache, zero time, flag clear; nothing runs.
InitCache ==
  /\ phase = "warm"
  /\ pc = [c \in Callers |-> "idle"]
  /\ cache = NilSlice
  /\ lastUpdated = 0
  /\ updating = FALSE
  /\ heap = [i \in ArrayIds |-> << >>]
  /\ fetched = [c \in Callers |-> NilSlice]
  /\ ret = [c \in Callers |-> NoRet]
  /\ expired = [c \in Callers |-> FALSE]
  /\ status = [c \in Callers |-> 0]
  /\ now = 0
  /\ ticked = FALSE
  /\ loopCancelled = FALSE
  /\ mu = MuFree

\* No direct call of rankDistricts has been made.
NoOut == [called |-> FALSE, panic |-> FALSE, arr |-> << >>, len |-> 0]

\* The points of a fleet fetch watched goroutine by goroutine.
FleetPoints == 1 .. NumFleetPoints

\* The providers' behaviours a fleet fetch is run against, each giving how
\* the temperature call (t) and the air-quality call (a) of every point
\* end: all fail; every second point succeeds and the others fail, by
\* their temperature call, by their air-quality call, or by both.
FleetOutcomes ==
  {[d \in FleetPoints |-> [t |-> "temperature", a |-> "air quality"]],
   [d \in FleetPoints |->
      IF d % 2 = 1 THEN [t |-> "ok", a |-> "ok"]
      ELSE IF d % 6 = 2 THEN [t |-> "temperature", a |-> "ok"]
      ELSE IF d % 6 = 4 THEN [t |-> "ok", a |-> "air quality"]
      ELSE [t |-> "temperature", a |-> "air quality"]]}

\* WeatherService.GetTopCoolestAndCleanest has started one goroutine per
\* point, whose calls will end as o says; none holds a slot, nothing has
\* been collected, and the call has not returned.
FleetCalled(o) ==
  /\ fleetIn = o
  /\ task = [d \in FleetPoints |-> "spawned"]
  /\ calls = [d \in FleetPoints |-> 0]
  /\ semaphore = 0
  /\ districtWeathers = << >>
  /\ failed = {}
  /\ results = << >>
  /\ closed = FALSE
  /\ fleetOut = [state |-> "running", arr |-> << >>, len |-> 0, err |-> "none"]

\* A fleet fetch in which every call succeeds.
InitFleet == FleetCalled([d \in FleetPoints |-> [t |-> "ok", a |-> "ok"]])

\* No direct call of rankDistricts is under way.
InitRankIdle ==
  /\ rankIn = [arr |-> << >>, len |-> 0]
  /\ rankOut = NoOut

\* fetchDistrictData is called for point d, whose calls will end as t, a:
\* it has declared its variables and started both calls, and has not
\* returned.
PointCalled(d, t, a) ==
  /\ pointIn = [d |-> d, t |-> t, a |-> a]
  /\ local = [avgTemp |-> 0, avgPM25 |-> 0, tempErr |-> "nil", aqErr |-> "nil",
              wg |-> 2, tempDone |-> FALSE, aqDone |-> FALSE, first |-> "none"]
  /\ pointOut = [returned |-> FALSE, temp |-> 0, pm |-> 0, err |-> "nil"]

\* The four provider calls of a comparison.
TravelCallNames == {"curTemp", "curPM25", "destTemp", "destPM25"}

\* A travel date time.Parse rejects.
BadDate == [ok |-> FALSE, day |-> 0]

\* The well-formed travel date d days after today (the UTC day of
\* time.Now()).
Day(d) == [ok |-> TRUE, day |-> d]

\* A provider call that fails, and one that delivers reading v (in
\* thousandths) for 14:00.
CallFails == [ok |-> FALSE, v |-> 0]

Reading(v) == [ok |-> TRUE, v |-> v]

\* A provider call not yet made.
NotCalled == [state |-> "none", v |-> 0, at |-> 0]

\* A provider call issued and not yet answered: s.httpClient.Do(req) has not
\* returned.
InFlight == [state |-> "issued", v |-> 0, at |-> 0]

\* GetRecommendation has not returned.
NoTravelOut ==
  [returned |-> FALSE, err |-> "nil", recommendation |-> "", reason |-> << >>,
   travelDate |-> BadDate, curTemp |-> 0, curPM25 |-> 0, destTemp |-> 0, destPM25 |-> 0,
   tempDiff |-> 0, pm25Diff |-> 0, curName |-> "", destName |-> "", destId |-> 0]

\* GetRecommendation is called with request r; no provider call is made.
TravelCalled(r) ==
  /\ travelReq = r
  /\ travelPc = "called"
  /\ travelGot = [k \in TravelCallNames |-> NotCalled]
  /\ travelCalls = 0
  /\ travelOut = NoTravelOut

\* The points the travel service of the tests tracks.
TestDistricts == << [id |-> 1, name |-> "Cox's Bazar"] >>

\* A list of points in which the first and the last share their name.
DuplicateDistricts ==
  << [id |-> 1, name |-> "Cox's Bazar"], [id |-> 2, name |-> "Dhaka"],
     [id |-> 3, name |-> "Cox's Bazar"] >>

\* The map keeping, of the points of one name, the first.
NewTravelServiceKeepingFirst(districts) ==
  [n \in {districts[i].name : i \in 1 .. Len(districts)} |->
     districts[CHOOSE i \in 1 .. Len(districts) :
                 /\ districts[i].name = n
                 /\ \A j \in 1 .. Len(districts) : districts[j].name = n => i <= j]]

\* NewTravelService: for _, d := range districts { districtMap[d.Name] = d },
\* each assignment replacing what the name mapped to before.
NewTravelService(districts) ==
  [n \in {districts[i].name : i \in 1 .. Len(districts)} |->
     districts[CHOOSE i \in 1 .. Len(districts) :
                 /\ districts[i].name = n
                 /\ \A j \in 1 .. Len(districts) : districts[j].name = n => j <= i]]

\* A request for tomorrow to a tracked point, every provider call failing,
\* to the service of the tests, by a caller that gives no name.
IdleRequest ==
  [date |-> Day(1), dest |-> "Cox's Bazar",
   resp |-> [k \in TravelCallNames |-> CallFails],
   name |-> "", districts |-> TestDistricts]

\* An entry of data.Hourly.Time too short to hold an hour (fewer than 13
\* characters); every other entry is given as its hour of the day, the
\* characters timeStr[11:13].
ShortStamp == 0 - 1

\* A result of a fetch function: the value in hundredths, or an error.
NoValue == [err |-> "nil", v |-> 0]

\* The fetch functions are given the decoded response h; neither has
\* reduced the series yet.
ReduceCalled(h) ==
  /\ hourly = h
  /\ reduced = [called |-> FALSE, fleet |-> NoValue, advisory |-> NoValue]

\* A response without a single entry.
EmptySeries == [time |-> << >>, values |-> << >>]

\* A field of the JSON body that is absent, and one that is given.
Missing == [given |-> FALSE, v |-> 0]
Given(x) == [given |-> TRUE, v |-> x]
MissingText == [given |-> FALSE, v |-> ""]
GivenText(x) == [given |-> TRUE, v |-> x]
MissingDate == [given |-> FALSE, empty |-> TRUE, ok |-> FALSE, day |-> 0]
GivenDate(d) == [given |-> TRUE, empty |-> FALSE, ok |-> d.ok, day |-> d.day]

\* "travel_date": "": the field is given and holds the empty string, which
\* time.Parse rejects.
EmptyDate == [given |-> TRUE, empty |-> TRUE, ok |-> FALSE, day |-> 0]

\* The handler is given body b; the providers will answer as resp.
HttpCalled(b) ==
  /\ httpReq = b
  /\ httpOut = [written |-> FALSE, status |-> 0, message |-> ""]

\* A body that is not JSON.
GarbledBody ==
  [wellFormed |-> FALSE, lat |-> Missing, long |-> Missing, name |-> MissingText,
   dest |-> MissingText, date |-> MissingDate, providersUp |-> FALSE,
   districts |-> TestDistricts]

\* Everything outside the cache is at rest.
InitRest ==
  /\ InitFleet
  /\ ReduceCalled(EmptySeries)
  /\ HttpCalled(GarbledBody)
  /\ PointCalled(1, "ok", "ok")
  /\ TravelCalled(IdleRequest)

Init ==
  /\ InitCache
  /\ InitRankIdle
  /\ InitRest

\* The nil test left out.
HasEntryAlways == TRUE

\* c.cache != nil
HasEntry == cache # NilSlice

\* The freshness test with the comparison off by one (age <= TTL).
IsFreshInclusive == HasEntry /\ now - lastUpdated <= TTL

\* c.cache != nil && time.Since(c.lastUpdated) < c.cacheTTL
IsFresh == HasEntry /\ now - lastUpdated < TTL

\* The arrays some slice refers to.
Refs(ca, re, fe) ==
  ({ca.arr} \cup {re[c].data.arr : c \in Callers} \cup {fe[c].arr : c \in Callers}) \ {0}

\* The heap with the arrays nothing refers to collected.
Gc(h, refs) == [i \in ArrayIds |-> IF i \in refs THEN h[i] ELSE << >>]

\* A new backing array: the least name not in use.
FreshId ==
  CHOOSE i \in ArrayIds :
    /\ i \notin Refs(cache, ret, fetched)
    /\ \A j \in ArrayIds : j < i => j \in Refs(cache, ret, fetched)

\* result := make([]types.DistrictWeather, len(c.cache)); copy(result, c.cache)
\* (of a nil slice: an empty one)
CopyOfCache == IF cache = NilSlice THEN << >> ELSE SubSeq(heap[cache.arr], 1, cache.len)

\* GetTopDestinations after the call returned (data, err): 504 when err is
\* set and the deadline was exceeded, 500 when err is set, else 200.
HandlerStatus(err, ctxExpired) ==
  IF err # "nil"
  THEN IF ctxExpired THEN StatusGatewayTimeout ELSE StatusInternalServerError
  ELSE StatusOK

\* GetTopCoolestAndCleanest returns (slice, err) to caller c by path how.
Return(c, slice, err, how) ==
  /\ pc' = [pc EXCEPT ![c] = "done"]
  /\ ret' = [ret EXCEPT ![c] = [data |-> slice, err |-> err, how |-> how]]
  /\ status' = [status EXCEPT ![c] =
                  IF c \in Handlers THEN HandlerStatus(err, expired[c]) ELSE 0]

\* Return a copy of the cached entry: make, copy, unlock, return.
ReturnCopy(c, how) ==
  /\ Return(c, [arr |-> FreshId, len |-> cache.len], "nil", how)
  /\ heap' = [heap EXCEPT ![FreshId] = CopyOfCache]

\* Where a caller stands before it enters GetTopCoolestAndCleanest: the
\* loop has received a tick, Run and the handlers come as they are.
AtCall(c) == IF c = "bg" THEN "called" ELSE "idle"

\* A caller enters GetTopCoolestAndCleanest and makes the first check,
\* under the read lock: a fresh entry is copied and returned; otherwise the
\* caller goes on to take the write lock.
FirstCheck(c) ==
  /\ pc[c] = AtCall(c)
  /\ UNCHANGED << cache, lastUpdated, updating, fetched, expired, now, rankVars, fleetVars, pointVars, travelVars, reduceVars, httpVars, loopVars, lockVars >>
  /\ IF IsFresh
     THEN ReturnCopy(c, "hit")
     ELSE /\ pc' = [pc EXCEPT ![c] = "wlock"]
          /\ UNCHANGED << heap, ret, status >>

\* Run calls WarmCache before anything else runs.
WarmCache ==
  /\ phase = "warm"
  /\ FirstCheck("main")
  /\ UNCHANGED << phase, ticked >>

\* A request for the top destinations arrives at the running server.
Request(h) ==
  /\ phase = "serve"
  /\ FirstCheck(h)
  /\ UNCHANGED << phase, ticked >>

\* The background loop's select receives the ticker's tick: case <-ticker.C.
\* The call of the cache follows as a step of its own.
BackgroundTick ==
  /\ phase = "serve"
  /\ pc["bg"] = "idle"
  /\ ~ticked
  /\ ticked' = TRUE
  /\ pc' = [pc EXCEPT !["bg"] = "called"]
  /\ UNCHANGED << phase, cache, lastUpdated, updating, heap, fetched, ret, expired,
                  status, now, rankVars, fleetVars, pointVars, travelVars, reduceVars, httpVars, loopVars, lockVars >>

\* The loop, having received a tick, calls the cache:
\* c.GetTopCoolestAndCleanest(refreshCtx).
BackgroundCall ==
  /\ phase = "serve"
  /\ FirstCheck("bg")
  /\ UNCHANGED << phase, ticked >>

\* The check of the updating flag left out.
ServeStaleNever == FALSE

\* if c.updating { if c.cache != nil { ... return result, nil } }
ServeStale == updating /\ HasEntry

\* Under the write lock: the second freshness check, then the check of the
\* updating flag, which returns the stale entry only when there is one;
\* otherwise the caller sets the flag, unlocks and goes on to fetch.
WCheck(c) ==
  /\ phase # "crashed"
  /\ pc[c] = "wlock"
  /\ UNCHANGED << phase, cache, lastUpdated, fetched, expired, now, ticked, rankVars, fleetVars, pointVars, travelVars, reduceVars, httpVars, loopVars, lockVars >>
  /\ IF IsFresh
     THEN /\ ReturnCopy(c, "recheck")
          /\ UNCHANGED updating
     ELSE IF ServeStale
     THEN /\ ReturnCopy(c, "stale")
          /\ UNCHANGED updating
     ELSE /\ updating' = TRUE
          /\ pc' = [pc EXCEPT ![c] = "fetching"]
          /\ UNCHANGED << heap, ret, status >>

\* c.service.GetTopCoolestAndCleanest(ctx) ends for caller c: the first k
\* points succeeded, their results arrived in list order or reversed, and
\* the caller's deadline did or did not expire (cutting off the others).
\* A panic in rankDistricts unwinds the caller: the recovery middleware
\* turns it into a 500 in a handler, and it ends the process in Run and in
\* the background goroutine.
FetchDone(c, k, rev, ctxExpired) ==
  /\ phase # "crashed"
  /\ pc[c] = "fetching"
  /\ ctxExpired => (k < NumDistricts /\ c \in Handlers)
  /\ expired' = [expired EXCEPT ![c] = ctxExpired]
  /\ UNCHANGED << cache, lastUpdated, updating, now, ticked, rankVars, fleetVars, pointVars, travelVars, reduceVars, httpVars, loopVars, lockVars >>
  /\ LET f == FleetFetch(Arrivals(k, rev))
     IN IF f.panic
        THEN IF c \in Handlers
             THEN /\ pc' = [pc EXCEPT ![c] = "done"]
                  /\ ret' = [ret EXCEPT ![c] = [data |-> NilSlice, err |-> "none", how |-> "panic"]]
                  /\ status' = [status EXCEPT ![c] = StatusInternalServerError]
                  /\ UNCHANGED << phase, heap, fetched >>
             ELSE /\ phase' = "crashed"
                  /\ pc' = [pc EXCEPT ![c] = "panicked"]
                  /\ UNCHANGED << heap, fetched, ret, status >>
        ELSE /\ pc' = [pc EXCEPT ![c] = "slock"]
             /\ fetched' = [fetched EXCEPT ![c] =
                              IF f.len = 0 THEN NilSlice ELSE [arr |-> FreshId, len |-> f.len]]
             /\ heap' = IF f.len = 0 THEN heap ELSE [heap EXCEPT ![FreshId] = f.arr]
             /\ UNCHANGED << phase, ret, status >>

\* Under the write lock again: clear the flag, store data and the time
\* when err is nil (it always is), unlock, return data itself.
Store(c) ==
  /\ phase # "crashed"
  /\ pc[c] = "slock"
  /\ updating' = FALSE
  /\ cache' = fetched[c]
  /\ lastUpdated' = now
  /\ fetched' = [fetched EXCEPT ![c] = NilSlice]
  /\ UNCHANGED << phase, expired, now, ticked, rankVars, fleetVars, pointVars, travelVars, reduceVars, httpVars, loopVars, lockVars >>
  /\ Return(c, fetched[c], "nil", "refresh")
  /\ heap' = Gc(heap, Refs(cache', ret', fetched'))

\* if err := weatherService.WarmCache(ctx); ...: the call has returned.
WarmCacheReturned == pc["main"] = "done"

\* WarmCache has returned: Run starts the background loop, whose ticker
\* fires first one period later, and the server.
StartServing ==
  /\ phase = "warm"
  /\ WarmCacheReturned
  /\ phase' = "serve"
  /\ ticked' = TRUE
  /\ pc' = [pc EXCEPT !["main"] = "exit"]
  /\ ret' = [ret EXCEPT !["main"] = NoRet]
  /\ heap' = Gc(heap, Refs(cache, ret', fetched))
  /\ UNCHANGED << cache, lastUpdated, updating, fetched, expired, status, now, rankVars, fleetVars, pointVars, travelVars, reduceVars, httpVars, loopVars, lockVars >>

\* A handler has written its response, the loop has called cancel(): the
\* caller drops what it was returned and waits for its next call.
Finish(c) ==
  /\ phase # "crashed"
  /\ c # "main"
  /\ pc[c] = "done"
  /\ pc' = [pc EXCEPT ![c] = "idle"]
  /\ ret' = [ret EXCEPT ![c] = NoRet]
  /\ expired' = [expired EXCEPT ![c] = FALSE]
  /\ status' = [status EXCEPT ![c] = 0]
  /\ heap' = Gc(heap, Refs(cache, ret', fetched))
  /\ UNCHANGED << phase, cache, lastUpdated, updating, fetched, now, ticked, rankVars, fleetVars, pointVars, travelVars, reduceVars, httpVars, loopVars, lockVars >>

\* One ticker period passes; the ticker holds a new tick.
Tick ==
  /\ phase # "crashed"
  /\ now < MaxTime
  /\ now' = now + 1
  /\ ticked' = FALSE
  /\ UNCHANGED << phase, pc, cache, lastUpdated, updating, heap, fetched,
                  ret, expired, status, rankVars, fleetVars, pointVars, travelVars, reduceVars, httpVars, loopVars, lockVars >>

\* The fleet fetch of caller c ends, in any of the ways it can.
Fetch(c) ==
  \E k \in 0 .. NumDistricts, rev \in BOOLEAN, e \in BOOLEAN : FetchDone(c, k, rev, e)

Next ==
  \/ WarmCache
  \/ StartServing
  \/ BackgroundTick
  \/ BackgroundCall
  \/ \E h \in Handlers : Request(h)
  \/ \E c \in Callers : WCheck(c)
  \/ \E c \in Callers : Fetch(c)
  \/ \E c \in Callers : Store(c)
  \/ \E c \in Callers : Finish(c)
  \/ Tick

Spec == Init /\ [][Next]_vars

\* ------------------------------------------------------------------------
\* The cache under normal load: every fleet fetch succeeds in full and ends
\* before the next tick, and the loop takes every tick of its ticker.
\* ------------------------------------------------------------------------

\* The fleet fetch of caller c ends with every point fetched, in time.
FetchAll(c) ==
  \E rev \in BOOLEAN : FetchDone(c, NumDistricts, rev, FALSE)

\* A period passes only when the server is up (the warm-up and the start
\* of the loop take less than a period), no call is under way and the loop
\* has taken this period's tick.
TimedTick ==
  /\ phase = "serve"
  /\ ticked
  /\ \A c \in Callers : pc[c] \in {"idle", "done", "exit"}
  /\ Tick

NextTimed ==
  \/ WarmCache
  \/ StartServing
  \/ BackgroundTick
  \/ BackgroundCall
  \/ \E h \in Handlers : Request(h)
  \/ \E c \in Callers : WCheck(c)
  \/ \E c \in Callers : FetchAll(c)
  \/ \E c \in Callers : Store(c)
  \/ \E c \in Callers : Finish(c)
  \/ TimedTick

SpecTimed == Init /\ [][NextTimed]_vars

\* ------------------------------------------------------------------------
\* Callers that write to what they were returned
\* ------------------------------------------------------------------------

\* The value the test writes into a returned record.
MutatedTemp == 99

\* result[0].AvgTemp2PM = 99.0, by a caller on the slice it was returned.
Mutate(c) ==
  /\ phase # "crashed"
  /\ pc[c] = "done"
  /\ ret[c].data.len > 0
  /\ heap[ret[c].data.arr][1].temp # MutatedTemp
  /\ heap' = [heap EXCEPT ![ret[c].data.arr][1].temp = MutatedTemp]
  /\ UNCHANGED << phase, pc, cache, lastUpdated, updating, fetched, ret,
                  expired, status, now, ticked, rankVars, fleetVars, pointVars, travelVars, reduceVars, httpVars, loopVars, lockVars >>

NextMut ==
  \/ Next
  \/ \E c \in Callers : Mutate(c)

SpecMut == Init /\ [][NextMut]_vars

\* ------------------------------------------------------------------------
\* The background loop and the cancellation of its context
\* ------------------------------------------------------------------------

\* The context StartBackgroundRefresh was given is cancelled.
CancelLoop ==
  /\ phase = "serve"
  /\ ~loopCancelled
  /\ pc["bg"] # "exit"
  /\ loopCancelled' = TRUE
  /\ UNCHANGED << cacheVars, rankVars, fleetVars, pointVars, travelVars, reduceVars, httpVars, lockVars >>

\* The loop's select takes `case <-ctx.Done(): return`. When a tick is
\* pending as well the select may take either case: BackgroundTick stays
\* enabled.
LoopExit ==
  /\ phase = "serve"
  /\ loopCancelled
  /\ pc["bg"] = "idle"
  /\ pc' = [pc EXCEPT !["bg"] = "exit"]
  /\ UNCHANGED << phase, cache, lastUpdated, updating, heap, fetched, ret,
                  expired, status, now, ticked, rankVars, fleetVars, pointVars, travelVars, reduceVars, httpVars, loopVars, lockVars >>

NextLoop ==
  \/ Next
  \/ CancelLoop
  \/ LoopExit

SpecLoop == Init /\ [][NextLoop]_vars

\* ------------------------------------------------------------------------
\* GetTopCoolestAndCleanest with the steps on c.mu taken one by one
\* ------------------------------------------------------------------------

\* c.mu.RLock() at the head of a call by c: by Run during the warm-up, by
\* a handler or by the loop (after it received a tick) once the server is
\* up. A reader waits while the lock is held for writing.
RLock(c) ==
  /\ pc[c] = AtCall(c)
  /\ IF c = "main" THEN phase = "warm" ELSE phase = "serve"
  /\ mu.writer = "none"
  /\ mu' = [mu EXCEPT !.readers = @ \cup {c}]
  /\ pc' = [pc EXCEPT ![c] = "rlocked"]
  /\ UNCHANGED << phase, cache, lastUpdated, updating, heap, fetched, ret, expired,
                  status, now, ticked, rankVars, fleetVars, pointVars, travelVars, reduceVars, httpVars, loopVars >>

\* Under the read lock: a fresh entry is copied and returned; either way
\* c.mu.RUnlock().
RSection(c) ==
  /\ phase # "crashed"
  /\ pc[c] = "rlocked"
  /\ mu' = [mu EXCEPT !.readers = @ \ {c}]
  /\ IF IsFresh
     THEN ReturnCopy(c, "hit")
     ELSE /\ pc' = [pc EXCEPT ![c] = "wlock"]
          /\ UNCHANGED << heap, ret, status >>
  /\ UNCHANGED << phase, cache, lastUpdated, updating, fetched, expired, now, ticked,
                  rankVars, fleetVars, pointVars, travelVars, reduceVars, httpVars, loopVars >>

\* c.mu.Lock(), before the re-check and before the store: the caller waits
\* until nobody holds the lock.
Lock(c) ==
  /\ phase # "crashed"
  /\ pc[c] \in {"wlock", "slock"}
  /\ mu = MuFree
  /\ mu' = [mu EXCEPT !.writer = c]
  /\ pc' = [pc EXCEPT ![c] = IF pc[c] = "wlock" THEN "wlocked" ELSE "slocked"]
  /\ UNCHANGED << phase, cache, lastUpdated, updating, heap, fetched, ret, expired, status,
                  now, ticked, rankVars, fleetVars, pointVars, travelVars, reduceVars, httpVars, loopVars >>

\* The re-check with the write lock kept over the fleet fetch.
WSectionKeepingLock(c) ==
  /\ phase # "crashed"
  /\ pc[c] = "wlocked"
  /\ UNCHANGED << phase, cache, lastUpdated, fetched, expired, now, ticked,
                  rankVars, fleetVars, pointVars, travelVars, reduceVars, httpVars, loopVars >>
  /\ IF IsFresh
     THEN /\ ReturnCopy(c, "recheck")
          /\ mu' = MuFree
          /\ UNCHANGED updating
     ELSE IF ServeStale
     THEN /\ ReturnCopy(c, "stale")
          /\ mu' = MuFree
          /\ UNCHANGED updating
     ELSE /\ updating' = TRUE
          /\ pc' = [pc EXCEPT ![c] = "fetching"]
          /\ UNCHANGED << heap, ret, status, mu >>

\* Under the write lock: the re-check and the check of the flag; a copy is
\* returned, or the flag is set; either way c.mu.Unlock() comes before the
\* return and before the fleet fetch.
WSection(c) ==
  /\ phase # "crashed"
  /\ pc[c] = "wlocked"
  /\ mu' = MuFree
  /\ UNCHANGED << phase, cache, lastUpdated, fetched, expired, now, ticked,
                  rankVars, fleetVars, pointVars, travelVars, reduceVars, httpVars, loopVars >>
  /\ IF IsFresh
     THEN /\ ReturnCopy(c, "recheck")
          /\ UNCHANGED updating
     ELSE IF ServeStale
     THEN /\ ReturnCopy(c, "stale")
          /\ UNCHANGED updating
     ELSE /\ updating' = TRUE
          /\ pc' = [pc EXCEPT ![c] = "fetching"]
          /\ UNCHANGED << heap, ret, status >>

\* Under the write lock after the fetch: clear the flag, store, unlock,
\* return.
SSection(c) ==
  /\ phase # "crashed"
  /\ pc[c] = "slocked"
  /\ mu' = MuFree
  /\ updating' = FALSE
  /\ cache' = fetched[c]
  /\ lastUpdated' = now
  /\ fetched' = [fetched EXCEPT ![c] = NilSlice]
  /\ UNCHANGED << phase, expired, now, ticked, rankVars, fleetVars, pointVars, travelVars, reduceVars, httpVars, loopVars >>
  /\ Return(c, fetched[c], "nil", "refresh")
  /\ heap' = Gc(heap, Refs(cache', ret', fetched'))

NextLock ==
  \/ BackgroundTick
  \/ \E c \in Callers : RLock(c)
  \/ \E c \in Callers : RSection(c)
  \/ \E c \in Callers : Lock(c)
  \/ \E c \in Callers : WSection(c)
  \/ \E c \in Callers : Fetch(c)
  \/ \E c \in Callers : SSection(c)
  \/ \E c \in Callers : Finish(c)
  \/ StartServing
  \/ Tick

SpecLock == Init /\ [][NextLock]_vars

\* ------------------------------------------------------------------------
\* Callers racing on an expired entry
\* ------------------------------------------------------------------------

\* The callers of the running server: the handler and the loop.
Racers == Callers \ {"main"}

\* The warm-up cached the data of at least ten points at time 0 and the
\* entry has just expired; no refresh runs; the handler and the loop have both made the
\* first check, found the entry expired and wait for the write lock.
InitRace ==
  /\ phase = "serve"
  /\ pc = [c \in Callers |-> IF c \in Racers THEN "wlock" ELSE "exit"]
  /\ \E k \in TopN .. NumDistricts, rev \in BOOLEAN :
       LET f == FleetFetch(Arrivals(k, rev))
       IN /\ cache = [arr |-> 1, len |-> f.len]
          /\ heap = [i \in ArrayIds |-> IF i = 1 THEN f.arr ELSE << >>]
  /\ lastUpdated = 0
  /\ updating = FALSE
  /\ fetched = [c \in Callers |-> NilSlice]
  /\ ret = [c \in Callers |-> NoRet]
  /\ expired = [c \in Callers |-> FALSE]
  /\ status = [c \in Callers |-> 0]
  /\ now = TTL
  /\ ticked = TRUE
  /\ loopCancelled = FALSE
  /\ mu = MuFree
  /\ InitRankIdle
  /\ InitRest

\* The race runs to its end: nobody else arrives, and it takes less than a
\* ticker period.
NextRace ==
  \/ \E c \in Racers : WCheck(c)
  \/ \E c \in Racers : Fetch(c)
  \/ \E c \in Racers : Store(c)

SpecRace == InitRace /\ [][NextRace]_vars

\* ------------------------------------------------------------------------
\* rankDistricts called directly
\* ------------------------------------------------------------------------

\* A record as the ranking tests build them; keys repeat with period 6.
RankRec(i) == [id |-> i, temp |-> 20 + (i % 3), pm |-> 30 + (i % 2), rank |-> 0]

\* The elements of a set of numbers in ascending order.
Ascending(S) ==
  [i \in 1 .. Cardinality(S) |->
     CHOOSE x \in S : Cardinality({y \in S : y < x}) = i - 1]

\* The slice holding records ids (ascending or descending); its capacity is
\* its length (a literal, a make) or what append grew it to.
RankInput(S, rev, exact) ==
  LET n   == Cardinality(S)
      asc == Ascending(S)
      ord == [i \in 1 .. n |-> IF rev THEN asc[n + 1 - i] ELSE asc[i]]
      cap == IF exact THEN n ELSE AppendCap(n)
  IN [arr |-> [i \in 1 .. cap |-> IF i <= n THEN RankRec(ord[i]) ELSE ZeroRec],
      len |-> n]

InitRank ==
  /\ InitCache
  /\ InitRest
  /\ rankIn \in {RankInput(S, rev, exact) :
                   S \in SUBSET (1 .. MaxRankLen), rev \in BOOLEAN, exact \in BOOLEAN}
  /\ rankOut = NoOut

\* s.rankDistricts(input)
RankStep ==
  /\ ~rankOut.called
  /\ LET r == rankDistricts(rankIn.arr, rankIn.len)
     IN rankOut' = [called |-> TRUE, panic |-> r.panic, arr |-> r.arr, len |-> r.len]
  /\ UNCHANGED << rankIn, cacheVars, fleetVars, pointVars, travelVars, reduceVars, httpVars, loopVars, lockVars >>

SpecRank == InitRank /\ [][RankStep]_vars

\* ------------------------------------------------------------------------
\* rankDistricts on the shortest slices that are not sorted by insertion
\* ------------------------------------------------------------------------

\* The length of those slices.
StableLen == maxInsertion + 1

\* A slice of StableLen records named by their position; the records at
\* the positions in S are the warmer ones, and all have the same PM2.5.
StableInput(S, exact) ==
  LET cap == IF exact THEN StableLen ELSE AppendCap(StableLen)
  IN [arr |-> [i \in 1 .. cap |->
                 IF i <= StableLen
                 THEN [id |-> i, temp |-> IF i \in S THEN 21 ELSE 20, pm |-> 30, rank |-> 0]
                 ELSE ZeroRec],
      len |-> StableLen]

InitStable ==
  /\ InitCache
  /\ InitRest
  /\ rankIn \in {StableInput(S, exact) : S \in SUBSET (1 .. StableLen), exact \in BOOLEAN}
  /\ rankOut = NoOut

SpecStable == InitStable /\ [][RankStep]_vars

\* ------------------------------------------------------------------------
\* WeatherService.GetTopCoolestAndCleanest, goroutine by goroutine
\* ------------------------------------------------------------------------

\* semaphore := make(chan struct{}, 5)
semaphoreCap == 5

\* The semaphore with no capacity limit.
SlotAlwaysFree == TRUE

\* semaphore <- struct{}{} can proceed: the channel's buffer is not full.
SlotFree == semaphore < semaphoreCap

\* The ways a provider call ends: a value, or an error.
TempOutcomes == {"ok", "temperature"}

AqOutcomes == {"ok", "air quality"}

\* fetchTemperature for point d: the average on success, (0, err) else.
fetchTemperature(d, t) ==
  IF t = "ok" THEN [value |-> TempOf(d), err |-> "nil"] ELSE [value |-> 0, err |-> t]

\* fetchAirQuality for point d: the average on success, (0, err) else.
fetchAirQuality(d, a) ==
  IF a = "ok" THEN [value |-> PM25Of(d), err |-> "nil"] ELSE [value |-> 0, err |-> a]

\* The error selection with the air-quality error taking priority.
PointResultAqFirst(avgTemp, avgPM25, tempErr, aqErr) ==
  IF aqErr # "nil" THEN [temp |-> 0, pm |-> 0, err |-> aqErr]
  ELSE IF tempErr # "nil" THEN [temp |-> 0, pm |-> 0, err |-> tempErr]
  ELSE [temp |-> avgTemp, pm |-> avgPM25, err |-> "nil"]

\* The end of fetchDistrictData, after wg.Wait: the temperature error
\* first, then the air-quality error, else both values.
PointResult(avgTemp, avgPM25, tempErr, aqErr) ==
  IF tempErr # "nil" THEN [temp |-> 0, pm |-> 0, err |-> tempErr]
  ELSE IF aqErr # "nil" THEN [temp |-> 0, pm |-> 0, err |-> aqErr]
  ELSE [temp |-> avgTemp, pm |-> avgPM25, err |-> "nil"]

\* fetchDistrictData's return for point d, given how its two provider
\* calls end.
fetchDistrictData(d, t, a) ==
  LET ft == fetchTemperature(d, t)
      fa == fetchAirQuality(d, a)
  IN PointResult(ft.value, fa.value, ft.err, fa.err)

\* The goroutine of point d takes a slot and calls fetchDistrictData, which
\* starts its two provider calls, each in a goroutine of its own.
Acquire(d) ==
  /\ fleetOut.state = "running"
  /\ task[d] = "spawned"
  /\ SlotFree
  /\ semaphore' = semaphore + 1
  /\ task' = [task EXCEPT ![d] = "running"]
  /\ calls' = [calls EXCEPT ![d] = 2]
  /\ UNCHANGED << fleetIn, districtWeathers, failed, results, closed, fleetOut, cacheVars, rankVars, pointVars, travelVars, reduceVars, httpVars, loopVars, lockVars >>

\* One of the two provider calls of point d ends, in its own goroutine:
\* the assignment of its results and the deferred wg.Done.
CallEnds(d) ==
  /\ task[d] = "running"
  /\ calls[d] > 0
  /\ calls' = [calls EXCEPT ![d] = @ - 1]
  /\ UNCHANGED << fleetIn, task, semaphore, districtWeathers, failed, results, closed, fleetOut, cacheVars, rankVars, pointVars, travelVars, reduceVars, httpVars, loopVars, lockVars >>

\* Both calls of point d have ended, as t and a say: the goroutine of d
\* comes back from wg.Wait, fetchDistrictData selects the error and
\* returns, and the goroutine sends the result. The results channel has
\* room for every point, so the send never waits.
Complete(d, t, a) ==
  /\ task[d] = "running"
  /\ calls[d] = 0
  /\ task' = [task EXCEPT ![d] = "sent"]
  /\ results' = Append(results, [d |-> d, err |-> fetchDistrictData(d, t, a).err])
  /\ UNCHANGED << fleetIn, calls, semaphore, districtWeathers, failed, closed, fleetOut, cacheVars, rankVars, pointVars, travelVars, reduceVars, httpVars, loopVars, lockVars >>

\* The goroutine of point d returning without giving its slot back.
ReleaseKeepingSlot(d) ==
  /\ task[d] = "sent"
  /\ task' = [task EXCEPT ![d] = "done"]
  /\ UNCHANGED << fleetIn, calls, semaphore, districtWeathers, failed, results, closed, fleetOut, cacheVars, rankVars, pointVars, travelVars, reduceVars, httpVars, loopVars, lockVars >>

\* The goroutine of point d returns and its deferred functions run, the
\* last one first: defer func() { <-semaphore }(), then defer wg.Done().
\* wg.Done is seen by wg.Wait alone, which waits for every goroutine, so
\* the two are taken in one step.
Release(d) ==
  /\ task[d] = "sent"
  /\ task' = [task EXCEPT ![d] = "done"]
  /\ semaphore' = semaphore - 1
  /\ UNCHANGED << fleetIn, calls, districtWeathers, failed, results, closed, fleetOut, cacheVars, rankVars, pointVars, travelVars, reduceVars, httpVars, loopVars, lockVars >>

\* The collector, in the caller's goroutine, receives the oldest result of
\* the channel: a failure is logged and skipped, a success is appended.
Receive ==
  /\ fleetOut.state = "running"
  /\ results # << >>
  /\ results' = Tail(results)
  /\ IF Head(results).err = "nil"
     THEN /\ districtWeathers' = Append(districtWeathers, Head(results).d)
          /\ UNCHANGED failed
     ELSE /\ failed' = failed \cup {Head(results).d}
          /\ UNCHANGED districtWeathers
  /\ UNCHANGED << fleetIn, task, calls, semaphore, closed, fleetOut, cacheVars, rankVars, pointVars, travelVars, reduceVars, httpVars, loopVars, lockVars >>

\* The closing goroutine: wg.Wait returns once every goroutine is done, and
\* the results channel is closed.
Close ==
  /\ ~closed
  /\ \A d \in FleetPoints : task[d] = "done"
  /\ closed' = TRUE
  /\ UNCHANGED << fleetIn, task, calls, semaphore, districtWeathers, failed, results, fleetOut, cacheVars, rankVars, pointVars, travelVars, reduceVars, httpVars, loopVars, lockVars >>

\* The channel is closed and empty: the collector's loop ends, and the
\* records are ranked and returned.
FleetReturn ==
  /\ fleetOut.state = "running"
  /\ closed
  /\ results = << >>
  /\ LET f == FleetFetch(districtWeathers)
     IN fleetOut' = [state |-> IF f.panic THEN "panicked" ELSE "returned",
                     arr |-> f.arr, len |-> f.len,
                     err |-> IF f.panic THEN "none" ELSE f.err]
  /\ UNCHANGED << fleetIn, task, calls, semaphore, districtWeathers, failed, results, closed, cacheVars, rankVars, pointVars, travelVars, reduceVars, httpVars, loopVars, lockVars >>

NextFleet ==
  \/ \E d \in FleetPoints : Acquire(d)
  \/ \E d \in FleetPoints : CallEnds(d)
  \/ \E d \in FleetPoints : Complete(d, fleetIn[d].t, fleetIn[d].a)
  \/ \E d \in FleetPoints : Release(d)
  \/ Receive
  \/ Close
  \/ FleetReturn

InitFleetRun ==
  /\ InitCache
  /\ InitRankIdle
  /\ ReduceCalled(EmptySeries)
  /\ HttpCalled(GarbledBody)
  /\ PointCalled(1, "ok", "ok")
  /\ TravelCalled(IdleRequest)
  /\ \E o \in FleetOutcomes : FleetCalled(o)

SpecFleet == InitFleetRun /\ [][NextFleet]_vars

\* ------------------------------------------------------------------------
\* fetchDistrictData alone, call by call
\* ------------------------------------------------------------------------

InitPoint ==
  /\ InitCache
  /\ InitRankIdle
  /\ InitFleet
  /\ TravelCalled(IdleRequest)
  /\ ReduceCalled(EmptySeries)
  /\ HttpCalled(GarbledBody)
  /\ \E d \in Districts, t \in TempOutcomes, a \in AqOutcomes : PointCalled(d, t, a)

\* The temperature goroutine: avgTemp, tempErr = s.fetchTemperature(...),
\* then wg.Done.
TempEnds ==
  /\ ~local.tempDone
  /\ LET ft == fetchTemperature(pointIn.d, pointIn.t)
     IN local' = [local EXCEPT !.avgTemp = ft.value, !.tempErr = ft.err,
                               !.tempDone = TRUE, !.wg = @ - 1,
                               !.first = IF @ = "none" THEN "temp" ELSE @]
  /\ UNCHANGED << pointIn, pointOut, cacheVars, rankVars, fleetVars, travelVars, reduceVars, httpVars, loopVars, lockVars >>

\* The air-quality goroutine: avgPM25, aqErr = s.fetchAirQuality(...), then
\* wg.Done.
AqEnds ==
  /\ ~local.aqDone
  /\ LET fa == fetchAirQuality(pointIn.d, pointIn.a)
     IN local' = [local EXCEPT !.avgPM25 = fa.value, !.aqErr = fa.err,
                               !.aqDone = TRUE, !.wg = @ - 1,
                               !.first = IF @ = "none" THEN "aq" ELSE @]
  /\ UNCHANGED << pointIn, pointOut, cacheVars, rankVars, fleetVars, travelVars, reduceVars, httpVars, loopVars, lockVars >>

\* wg.Wait returns once both goroutines are done; the errors are looked at
\* and fetchDistrictData returns.
PointReturn ==
  /\ ~pointOut.returned
  /\ local.wg = 0
  /\ LET r == PointResult(local.avgTemp, local.avgPM25, local.tempErr, local.aqErr)
     IN pointOut' = [returned |-> TRUE, temp |-> r.temp, pm |-> r.pm, err |-> r.err]
  /\ UNCHANGED << pointIn, local, cacheVars, rankVars, fleetVars, travelVars, reduceVars, httpVars, loopVars, lockVars >>

NextPoint ==
  \/ TempEnds
  \/ AqEnds
  \/ PointReturn

SpecPoint == InitPoint /\ [][NextPoint]_vars

\* ------------------------------------------------------------------------
\* TravelService.GetRecommendation
\* ------------------------------------------------------------------------

\* maxDate := now.AddDate(0, 0, 15)
ForecastDays == 15

\* The names in s.districts (the test's single tracked point).
TrackedNames == {"Cox's Bazar"}

\* math.Round(x*100) / 100 on a reading given in thousandths, the result in
\* hundredths: to the nearest, halves away from zero.
Round2(x) ==
  IF x >= 0 THEN (x + 5) \div 10 ELSE 0 - ((5 - x) \div 10)

\* The travel dates requested: a malformed one, yesterday, today and the
\* days after it.
TravelDates == {BadDate} \cup {Day(d) : d \in (0 - 1) .. MaxDayOffset}

\* What the providers answer: a reading for 14:00 in thousandths (none
\* lies halfway between two hundredths), or a failure.
TempAnswers == {CallFails} \cup {Reading(v) : v \in {0 - 6, 28004, 28006, 35500}}

PM25Answers == {CallFails} \cup {Reading(v) : v \in {25004, 25006, 75000}}

\* The requests and provider behaviours considered.
TravelRequests ==
  [date : TravelDates,
   dest : TrackedNames \cup {"NonExistent District"},
   resp : {f \in [TravelCallNames -> TempAnswers \cup PM25Answers] :
             /\ f["curTemp"] \in TempAnswers
             /\ f["destTemp"] \in TempAnswers
             /\ f["curPM25"] \in PM25Answers
             /\ f["destPM25"] \in PM25Answers},
   name : {""},
   districts : {TestDistricts}]

\* No validation at all.
NoValidation(r) == "nil"

\* The checks at the head of GetRecommendation, in their order: the date's
\* format, its range, the destination's name. "nil" when all pass.
ValidationError(r) ==
  IF ~r.date.ok THEN "invalid travel date format, use YYYY-MM-DD"
  ELSE IF r.date.day < 0 \/ r.date.day > ForecastDays
  THEN "travel date must be within the next 15 days"
  ELSE IF r.dest \notin DOMAIN NewTravelService(r.districts)
  THEN "destination district not found"
  ELSE "nil"

\* fetchTemperature / fetchPM25 of the travel service: the rounded reading,
\* or an error.
ProviderResult(answer) ==
  IF answer.ok THEN [state |-> "ok", v |-> Round2(answer.v)]
  ELSE [state |-> "error", v |-> 0]

\* The verdict with either improvement being enough.
VerdictEither(isCooler, isCleaner) ==
  IF isCleaner \/ isCooler THEN "Recommended" ELSE "Not Recommended"

\* recommended := "Not Recommended"; if isCleaner && isCooler { "Recommended" }
Verdict(isCooler, isCleaner) ==
  IF isCleaner /\ isCooler THEN "Recommended" ELSE "Not Recommended"

\* The difference taken the other way round.
DifferenceReversed(current, destination) == destination - current

\* math.Round((current - destination) * 100) / 100 on two readings in
\* hundredths, the result in hundredths: the readings are rounded to
\* hundredths already, so the rounding only removes the error of the
\* floating-point subtraction.
Difference(current, destination) == current - destination

\* The errors fetchTemperature and fetchPM25 return when the provider
\* answers with a status other than 200.
TemperatureError == "weather API returned status 500"

PM25Error == "air quality API returned status 500"

\* The error selection with the PM2.5 error taking priority.
fetchWeatherForDatePM25First(t, p) ==
  IF p.state = "error" THEN [temp |-> 0, pm |-> 0, err |-> PM25Error]
  ELSE IF t.state = "error" THEN [temp |-> 0, pm |-> 0, err |-> TemperatureError]
  ELSE [temp |-> t.v, pm |-> p.v, err |-> "nil"]

\* fetchWeatherForDate after both of its calls have returned t and p: the
\* temperature error first, then the PM2.5 error, else both values.
fetchWeatherForDate(t, p) ==
  IF t.state = "error" THEN [temp |-> 0, pm |-> 0, err |-> TemperatureError]
  ELSE IF p.state = "error" THEN [temp |-> 0, pm |-> 0, err |-> PM25Error]
  ELSE [temp |-> t.v, pm |-> p.v, err |-> "nil"]

\* The caller's name taken as given.
CurrentNameAsGiven(name) == name

\* name := req.CurrentLocation.Name; if name == "" { name = "Current Location" }
CurrentName(name) == IF name = "" THEN "Current Location" ELSE name

\* GetRecommendation after both fetchWeatherForDate results have been
\* received: the current location's error first, then the destination's,
\* each wrapped, else the comparison. Values are in hundredths.
Recommendation(r, got) ==
  LET current == fetchWeatherForDate(got["curTemp"], got["curPM25"])
      dest    == fetchWeatherForDate(got["destTemp"], got["destPM25"])
      destination == NewTravelService(r.districts)[r.dest]
  IN IF current.err # "nil"
     THEN [NoTravelOut EXCEPT !.returned = TRUE,
             !.err = "failed to fetch current location weather: " \o current.err]
     ELSE IF dest.err # "nil"
     THEN [NoTravelOut EXCEPT !.returned = TRUE,
             !.err = "failed to fetch destination weather: " \o dest.err]
     ELSE [returned |-> TRUE, err |-> "nil",
           recommendation |-> Verdict(dest.temp < current.temp, dest.pm < current.pm),
           reason |-> << "Reason" >>,
           travelDate |-> r.date,
           curTemp |-> current.temp, curPM25 |-> current.pm,
           destTemp |-> dest.temp, destPM25 |-> dest.pm,
           tempDiff |-> Difference(current.temp, dest.temp),
           pm25Diff |-> Difference(current.pm, dest.pm),
           curName |-> CurrentName(r.name),
           destName |-> destination.name,
           destId |-> destination.id]

InitTravel ==
  /\ InitCache
  /\ InitRankIdle
  /\ InitFleet
  /\ PointCalled(1, "ok", "ok")
  /\ ReduceCalled(EmptySeries)
  /\ HttpCalled(GarbledBody)
  /\ \E r \in TravelRequests : TravelCalled(r)

\* The head of GetRecommendation with the destination looked up before the
\* date is checked.
ValidateDestinationFirst ==
  /\ travelPc = "called"
  /\ LET err == IF travelReq.dest \notin TrackedNames
                THEN "destination district not found"
                ELSE ValidationError(travelReq)
     IN IF err # "nil"
        THEN /\ travelPc' = "returned"
             /\ travelOut' = [NoTravelOut EXCEPT !.returned = TRUE, !.err = err]
        ELSE /\ travelPc' = "fetching"
             /\ UNCHANGED travelOut
  /\ UNCHANGED << travelReq, travelGot, travelCalls, cacheVars, rankVars, fleetVars, pointVars, reduceVars, httpVars, loopVars, lockVars >>

\* The head of GetRecommendation: a failed check returns its error at
\* once; otherwise the two fetchWeatherForDate goroutines are started.
Validate ==
  /\ travelPc = "called"
  /\ IF ValidationError(travelReq) # "nil"
     THEN /\ travelPc' = "returned"
          /\ travelOut' = [NoTravelOut EXCEPT !.returned = TRUE,
                                              !.err = ValidationError(travelReq)]
     ELSE /\ travelPc' = "fetching"
          /\ UNCHANGED travelOut
  /\ UNCHANGED << travelReq, travelGot, travelCalls, cacheVars, rankVars, fleetVars, pointVars, reduceVars, httpVars, loopVars, lockVars >>

\* The goroutine of one of the four provider calls sends its request.
ProviderCall(k) ==
  /\ travelPc = "fetching"
  /\ travelGot[k] = NotCalled
  /\ travelGot' = [travelGot EXCEPT ![k] = InFlight]
  /\ travelCalls' = travelCalls + 1
  /\ UNCHANGED << travelReq, travelPc, travelOut, cacheVars, rankVars, fleetVars, pointVars, reduceVars, httpVars, loopVars, lockVars >>

\* The provider answers one of the calls in flight: the fetch function
\* returns and its goroutine sends the result on its channel. The result
\* is noted with its place in the order the calls came in.
ProviderReturn(k) ==
  /\ travelPc = "fetching"
  /\ travelGot[k] = InFlight
  /\ LET res == ProviderResult(travelReq.resp[k])
         answered == {j \in TravelCallNames : travelGot[j].state \in {"ok", "error"}}
     IN travelGot' = [travelGot EXCEPT ![k] =
                        [state |-> res.state, v |-> res.v, at |-> Cardinality(answered) + 1]]
  /\ UNCHANGED << travelReq, travelPc, travelCalls, travelOut, cacheVars, rankVars, fleetVars, pointVars, reduceVars, httpVars, loopVars, lockVars >>

\* Both results have been received from their channels; GetRecommendation
\* returns an error or the recommendation.
Recommend ==
  /\ travelPc = "fetching"
  /\ \A k \in TravelCallNames : travelGot[k].state \in {"ok", "error"}
  /\ travelPc' = "returned"
  /\ travelOut' = Recommendation(travelReq, travelGot)
  /\ UNCHANGED << travelReq, travelGot, travelCalls, cacheVars, rankVars, fleetVars, pointVars, reduceVars, httpVars, loopVars, lockVars >>

NextTravel ==
  \/ Validate
  \/ \E k \in TravelCallNames : ProviderCall(k)
  \/ \E k \in TravelCallNames : ProviderReturn(k)
  \/ Recommend

SpecTravel == InitTravel /\ [][NextTravel]_vars

\* ------------------------------------------------------------------------
\* The reduction of an hourly series to the 14:00 value (both providers)
\* ------------------------------------------------------------------------

\* The longest series considered.
MaxSeriesLen == 3

\* The sequences over S of at most n elements.
SeqsUpTo(S, n) == UNION {[1 .. k -> S] : k \in 0 .. n}

\* The responses considered: entries of 13:00 and of 14:00 and entries too
\* short to hold an hour; values in thousandths, of which no mean lies
\* halfway between two hundredths; the values may be fewer than the entries.
Series ==
  [time   : SeqsUpTo({13, 14, ShortStamp}, MaxSeriesLen),
   values : SeqsUpTo({20000, 28004, 30000}, MaxSeriesLen)]

\* for i, timeStr := range time { if len(timeStr) >= 13 &&
\* timeStr[11:13] == "14" { if i < len(values) { temps = append(temps,
\* values[i]) } } }, over the first n entries.
RECURSIVE temps(_, _, _)
temps(time, values, n) ==
  IF n = 0 THEN << >>
  ELSE LET before == temps(time, values, n - 1)
       IN IF time[n] # ShortStamp /\ time[n] = 14 /\ n <= Len(values)
          THEN Append(before, values[n])
          ELSE before

\* for _, t := range temps { sum += t }
RECURSIVE sum(_)
sum(s) == IF s = << >> THEN 0 ELSE s[1] + sum(Tail(s))

\* math.Round(sum / float64(n) * 100) / 100 on a sum in thousandths, the
\* result in hundredths: to the nearest, halves away from zero.
RoundAvg(total, n) ==
  IF total >= 0 THEN (2 * total + 10 * n) \div (20 * n)
  ELSE 0 - ((10 * n - 2 * total) \div (20 * n))

\* WeatherService.fetchTemperature and fetchAirQuality after the decode:
\* the mean of the 14:00 values, or an error when there is none.
averageAt2PM(time, values) ==
  LET selected == temps(time, values, Len(time))
  IN IF Len(selected) = 0
     THEN [err |-> "no 2PM data found", v |-> 0]
     ELSE [err |-> "nil", v |-> RoundAvg(sum(selected), Len(selected))]

\* The date-scoped reduction taking the first value of the array, whatever
\* the index of the 14:00 entry.
firstValueAt2PM(time, values, i) ==
  IF (\E k \in i .. Len(time) : time[k] # ShortStamp /\ time[k] = 14) /\ Len(values) > 0
  THEN [err |-> "nil", v |-> Round2(values[1])]
  ELSE [err |-> "no 2PM data found", v |-> 0]

\* TravelService.fetchTemperature and fetchPM25 after the decode: the loop
\* returns at the first 14:00 entry that has a value, from entry i on.
RECURSIVE firstAt2PM(_, _, _)
firstAt2PM(time, values, i) ==
  IF i > Len(time) THEN [err |-> "no 2PM data found", v |-> 0]
  ELSE IF time[i] # ShortStamp /\ time[i] = 14 /\ i <= Len(values)
  THEN [err |-> "nil", v |-> Round2(values[i])]
  ELSE firstAt2PM(time, values, i + 1)

InitReduce ==
  /\ InitCache
  /\ InitRankIdle
  /\ InitFleet
  /\ PointCalled(1, "ok", "ok")
  /\ TravelCalled(IdleRequest)
  /\ HttpCalled(GarbledBody)
  /\ \E h \in Series : ReduceCalled(h)

\* Each mode's fetch function reduces the response.
Reduce ==
  /\ ~reduced.called
  /\ reduced' = [called   |-> TRUE,
                 fleet    |-> averageAt2PM(hourly.time, hourly.values),
                 advisory |-> firstAt2PM(hourly.time, hourly.values, 1)]
  /\ UNCHANGED << hourly, cacheVars, rankVars, fleetVars, pointVars, travelVars, httpVars, loopVars, lockVars >>

SpecReduce == InitReduce /\ [][Reduce]_vars

\* ------------------------------------------------------------------------
\* RecommendationHandler.GetRecommendation (POST /api/v1/travel/recommendation)
\* ------------------------------------------------------------------------

\* http.StatusBadRequest
StatusBadRequest == 400

\* The bodies considered: one that is not JSON, and the JSON bodies with
\* each field absent or given (a coordinate also given as 0, the
\* destination tracked or not, the date malformed, in range or beyond it);
\* the providers answer every call of a request, or none; the caller's
\* name given or not; the handler's travel service built with the points
\* of the tests or with a list in which two points share a name.
Bodies ==
  {GarbledBody} \cup
  [wellFormed  : {TRUE},
   lat         : {Missing, Given(0), Given(23)},
   long        : {Missing, Given(0), Given(90)},
   dest        : {MissingText} \cup
                 {GivenText(n) : n \in TrackedNames \cup {"NonExistent District"}},
   date        : {MissingDate, EmptyDate} \cup
                 {GivenDate(d) : d \in {BadDate, Day(1), Day(MaxDayOffset)}},
   providersUp : BOOLEAN,
   name        : {MissingText, GivenText("Dhaka")},
   districts   : {TestDistricts, DuplicateDistricts}]

\* json.Decode into a field of TravelRequestBody: an absent field keeps the
\* zero value of its type.
Decoded(f, zero) == IF f.given THEN f.v ELSE zero

\* The checks of the handler, in their order: the decode, then
\* Lat == 0 && Long == 0, DestinationDistrictName == "", TravelDate == ""
\* (the field absent, or given as the empty string).
\* "nil" when all pass.
BodyError(b) ==
  IF ~b.wellFormed THEN "invalid request body"
  ELSE IF Decoded(b.lat, 0) = 0 /\ Decoded(b.long, 0) = 0
  THEN "current_location lat and long are required"
  ELSE IF Decoded(b.dest, "") = "" THEN "destination_district_id is required"
  ELSE IF b.date.empty THEN "travel_date is required (format: YYYY-MM-DD)"
  ELSE "nil"

\* The providers' answers to the calls of a request: the example's
\* readings, or a failure each.
ProvidersAnswer(up) ==
  IF up
  THEN [k \in TravelCallNames |->
          IF k = "curTemp" THEN Reading(35500)
          ELSE IF k = "curPM25" THEN Reading(75000)
          ELSE IF k = "destTemp" THEN Reading(28004)
          ELSE Reading(25004)]
  ELSE [k \in TravelCallNames |-> CallFails]

\* req := types.TravelRequest{...}, built from the body.
BuildRequest(b) ==
  [date |-> [ok |-> b.date.ok, day |-> b.date.day],
   dest |-> Decoded(b.dest, ""),
   resp |-> ProvidersAnswer(b.providersUp),
   name |-> Decoded(b.name, ""),
   districts |-> b.districts]

InitHttp ==
  /\ InitCache
  /\ InitRankIdle
  /\ InitFleet
  /\ PointCalled(1, "ok", "ok")
  /\ ReduceCalled(EmptySeries)
  /\ travelReq = IdleRequest
  /\ travelPc = "idle"
  /\ travelGot = [k \in TravelCallNames |-> NotCalled]
  /\ travelCalls = 0
  /\ travelOut = NoTravelOut
  /\ \E b \in Bodies : HttpCalled(b)

\* The head of the handler: a body that fails a check is answered with 400
\* at once; otherwise h.travelService.GetRecommendation is called.
Decode ==
  /\ ~httpOut.written
  /\ travelPc = "idle"
  /\ IF BodyError(httpReq) # "nil"
     THEN /\ httpOut' = [written |-> TRUE, status |-> StatusBadRequest,
                         message |-> BodyError(httpReq)]
          /\ UNCHANGED << travelReq, travelPc >>
     ELSE /\ travelReq' = BuildRequest(httpReq)
          /\ travelPc' = "called"
          /\ UNCHANGED httpOut
  /\ UNCHANGED << httpReq, travelGot, travelCalls, travelOut, cacheVars, rankVars, fleetVars, pointVars, reduceVars, loopVars, lockVars >>

\* The service has returned: 400 with the error's text, or 200 with the
\* recommendation.
Respond ==
  /\ ~httpOut.written
  /\ travelPc = "returned"
  /\ httpOut' = IF travelOut.err # "nil"
                THEN [written |-> TRUE, status |-> StatusBadRequest, message |-> travelOut.err]
                ELSE [written |-> TRUE, status |-> StatusOK, message |-> ""]
  /\ UNCHANGED << httpReq, cacheVars, rankVars, fleetVars, pointVars, travelVars, reduceVars, loopVars, lockVars >>

NextHttp ==
  \/ Decode
  \/ Validate
  \/ \E k \in TravelCallNames : ProviderCall(k)
  \/ \E k \in TravelCallNames : ProviderReturn(k)
  \/ Recommend
  \/ Respond

SpecHttp == InitHttp /\ [][NextHttp]_vars

\* ------------------------------------------------------------------------
\* Properties
\* ------------------------------------------------------------------------

\* The records of a slice in heap h (none for a nil slice).
Records(sl, h) == IF sl.arr = 0 THEN << >> ELSE SubSeq(h[sl.arr], 1, sl.len)

\* The records of the cached entry.
CacheRecords == Records(cache, heap)

\* The records caller c was returned.
RetRecords(c) == Records(ret[c].data, heap)

\* The callers whose fleet fetch is in flight.
Fetching == {c \in Callers : pc[c] = "fetching"}

\* C1: at most one fleet-wide refresh (a call into
\* WeatherService.GetTopCoolestAndCleanest) is in flight at any time, also
\* when callers arrive while the cache holds no entry.
SingleRefresh == Cardinality(Fetching) <= 1

\* C2: a caller that, under the write lock, finds the entry expired while
\* the updating flag is set and an entry exists returns a copy of the
\* stale entry with no error: it starts no fetch, changes nothing of the
\* cache, and returns while the running refresh is still running.
StaleReaderReturnsCopy ==
  [][\A c \in Callers :
       (/\ pc[c] = "wlock"
        /\ pc'[c] # "wlock"
        /\ cache # NilSlice
        /\ now - lastUpdated >= TTL
        /\ updating)
       => /\ pc'[c] = "done"
          /\ ret'[c].err = "nil"
          /\ ret'[c].data.arr # cache.arr
          /\ Records(ret'[c].data, heap') = CacheRecords
          /\ UNCHANGED << cache, lastUpdated, updating >>
          /\ \A d \in Callers : (pc'[d] = "fetching") <=> (pc[d] = "fetching")]_vars

\* C2's case: a caller was served the stale entry while another caller's
\* refresh is in flight.
StaleServedDuringRefresh ==
  \E c, d \in Callers : ret[c].how = "stale" /\ pc[d] = "fetching"

\* C3: a refresh that obtained no data (every point failed) leaves the
\* cached entry and its records as they were.
KeepsEntryOnEmptyRefresh ==
  [][\A c \in Callers :
       (/\ pc[c] = "slock"
        /\ pc'[c] = "done"
        /\ fetched[c] = NilSlice
        /\ cache # NilSlice)
       => /\ cache' # NilSlice
          /\ CacheRecords' = CacheRecords]_vars

\* C4: when nothing has been cached yet (the warm-up is the first call) and
\* the fleet fetch obtained no data, the call returns an error, not a
\* successful empty result.
WarmFailureIsError ==
  (pc["main"] = "done" /\ ret["main"].data = NilSlice) => ret["main"].err # "nil"

\* C5: a caller writing to a record it was returned changes neither the
\* cached entry nor what any other caller was returned, whichever path
\* returned it.
ReturnedSlicesIndependent ==
  [][\A c \in Callers :
       Mutate(c) => /\ CacheRecords' = CacheRecords
                    /\ \A d \in Callers \ {c} : RetRecords(d)' = RetRecords(d)]_vars

\* C6: a call that finds an entry younger than the TTL returns its records
\* with no error, starts no fetch and leaves records, timestamp and flag
\* unchanged; a call that finds no entry or one of age >= TTL is not
\* served as a hit, on the first check or on the re-check.
CacheHitWithinTTL ==
  [][/\ \A c \in Callers :
          (pc[c] = AtCall(c) /\ pc'[c] # AtCall(c))
          => IF cache # NilSlice /\ now - lastUpdated < TTL
             THEN /\ pc'[c] = "done"
                  /\ ret'[c].err = "nil"
                  /\ ret'[c].how = "hit"
                  /\ Records(ret'[c].data, heap') = CacheRecords
                  /\ c \in Handlers => status'[c] = StatusOK
                  /\ UNCHANGED << cache, lastUpdated, updating >>
                  /\ CacheRecords' = CacheRecords
                  /\ \A d \in Callers : pc'[d] = "fetching" => pc[d] = "fetching"
             ELSE /\ pc'[c] = "wlock"
                  /\ ret'[c] = NoRet
     /\ \A c \in Callers :
          (ret[c].how = "none" /\ ret'[c].how \in {"hit", "recheck"})
          => (cache # NilSlice /\ now - lastUpdated < TTL)]_vars

\* C6's case: a handler was served a hit from an entry one period old.
HitServed ==
  \E h \in Handlers :
    /\ ret[h].how = "hit"
    /\ status[h] = StatusOK
    /\ now - lastUpdated = 1

\* C7: the updating flag is set only while a refresh is running (its fetch
\* in flight or its result about to be stored).
FlagClearedAfterRefresh ==
  (phase # "crashed" /\ updating) => \E c \in Callers : pc[c] \in {"fetching", "slock"}

\* C8: under normal load, once the cache is populated the age of the entry
\* never reaches the TTL.
NeverStale ==
  (phase = "serve" /\ cache # NilSlice) => now - lastUpdated < TTL

\* C9: a handler whose deadline expired before it had a ranked result
\* answers 504.
TimeoutIs504 ==
  \A h \in Handlers : (status[h] # 0 /\ expired[h]) => status[h] = StatusGatewayTimeout

\* s sorted by ascending temperature, ties by ascending PM2.5.
SortedByKey(s) ==
  \A i \in 1 .. Len(s) - 1 :
    \/ s[i].temp < s[i + 1].temp
    \/ s[i].temp = s[i + 1].temp /\ s[i].pm <= s[i + 1].pm

\* The rank of the entry at position i is i.
RanksInOrder(s) == \A i \in 1 .. Len(s) : s[i].rank = i

\* The records rankDistricts returned.
RankOutput == SubSeq(rankOut.arr, 1, rankOut.len)

\* C10: for every non-empty input, what rankDistricts returns is sorted by
\* (temperature, PM2.5), has at most 10 entries and carries ranks 1..k.
RankSortedTop10 ==
  (rankOut.called /\ rankIn.len > 0 /\ ~rankOut.panic)
  => /\ SortedByKey(RankOutput)
     /\ Len(RankOutput) <= TopN
     /\ RanksInOrder(RankOutput)

\* The ids of the records of a sequence.
IdsOf(s) == {s[i].id : i \in 1 .. Len(s)}

\* The records rankDistricts was given.
RankInputRecords == SubSeq(rankIn.arr, 1, rankIn.len)

\* No two entries of s are the same record.
DistinctIds(s) == \A i, j \in 1 .. Len(s) : s[i].id = s[j].id => i = j

\* C11: for an input of k records, 1 <= k < 10, rankDistricts does not
\* panic and returns exactly the k records of the input, sorted and ranked
\* 1..k, with no record that was not in the input.
RankShortInputExact ==
  (rankOut.called /\ rankIn.len >= 1 /\ rankIn.len < TopN)
  => /\ ~rankOut.panic
     /\ Len(RankOutput) = rankIn.len
     /\ IdsOf(RankOutput) = IdsOf(RankInputRecords)
     /\ SortedByKey(RankOutput)
     /\ RanksInOrder(RankOutput)

\* C12: for an input of more than 10 records, rankDistricts returns exactly
\* 10 records of the input, sorted and ranked 1..10, and no record it left
\* out comes strictly before a returned one in the (temperature, PM2.5)
\* order.
RankTop10OfMany ==
  (rankOut.called /\ rankIn.len > TopN)
  => /\ ~rankOut.panic
     /\ Len(RankOutput) = TopN
     /\ DistinctIds(RankOutput)
     /\ IdsOf(RankOutput) \subseteq IdsOf(RankInputRecords)
     /\ SortedByKey(RankOutput)
     /\ RanksInOrder(RankOutput)
     /\ \A i \in 1 .. rankIn.len :
          rankIn.arr[i].id \notin IdsOf(RankOutput)
          => \A j \in 1 .. Len(RankOutput) :
               \/ RankOutput[j].temp < rankIn.arr[i].temp
               \/ /\ RankOutput[j].temp = rankIn.arr[i].temp
                  /\ RankOutput[j].pm <= rankIn.arr[i].pm

\* C12's case: an input of more than 10 records in descending order was
\* ranked, and a record was left out.
RankedMoreThanTen ==
  /\ rankOut.called
  /\ rankIn.len > TopN
  /\ rankIn.arr[1].id > rankIn.arr[2].id
  /\ \E i \in 1 .. rankIn.len : rankIn.arr[i].id \notin IdsOf(RankOutput)

\* The position of record id in the input of rankDistricts.
InputPos(id) == CHOOSE i \in 1 .. rankIn.len : rankIn.arr[i].id = id

\* C13: records with equal temperature and equal PM2.5 appear in the
\* output of rankDistricts in their input order.
RankStable ==
  (rankOut.called /\ ~rankOut.panic /\ rankIn.len >= TopN)
  => \A i, j \in 1 .. Len(RankOutput) :
       (/\ i < j
        /\ RankOutput[i].temp = RankOutput[j].temp
        /\ RankOutput[i].pm = RankOutput[j].pm)
       => InputPos(RankOutput[i].id) < InputPos(RankOutput[j].id)

\* The points whose goroutine holds a slot: fetchDistrictData is in flight,
\* or has returned and the deferred release has not run yet.
Aggregating == {d \in FleetPoints : task[d] \in {"running", "sent"}}

\* C14: at most 5 point aggregations are in flight at any time; each holds
\* a slot from before it starts until it completes, and the other tasks
\* wait.
AtMostFiveAggregations ==
  /\ Cardinality(Aggregating) <= semaphoreCap
  /\ semaphore = Cardinality(Aggregating)
  /\ \A d \in FleetPoints : task[d] # "running" => calls[d] = 0

\* C14's case: every slot is taken and a task is waiting for one.
SlotsFullOneWaiting ==
  /\ Cardinality(Aggregating) = semaphoreCap
  /\ \E d \in FleetPoints : task[d] = "spawned"

\* The number of provider calls in flight over the points of S.
RECURSIVE CallsInFlight(_)
CallsInFlight(S) ==
  IF S = {} THEN 0
  ELSE LET d == CHOOSE x \in S : TRUE
       IN calls[d] + CallsInFlight(S \ {d})

\* C15: at most 5 outbound provider calls are in flight at the same time.
AtMostFiveProviderCalls == CallsInFlight(FleetPoints) <= semaphoreCap

\* C16: the fleet fetch never fails as a whole: whatever the outcomes of
\* the points, it returns with no error, and the ranker was handed exactly
\* one record for each point that succeeded.
FleetNeverFails ==
  fleetOut.state # "running"
  => /\ fleetOut.state = "returned"
     /\ fleetOut.err = "nil"
     /\ Len(districtWeathers) = Cardinality(FleetPoints \ failed)
     /\ {districtWeathers[i] : i \in 1 .. Len(districtWeathers)} = FleetPoints \ failed

\* C17: fetchDistrictData returns only after both provider calls have
\* ended; if either failed it returns an error and zero values, the
\* temperature call's error when both failed, whichever ended first; and
\* it returns both values when both succeeded.
PointWaitsAndTempErrorFirst ==
  pointOut.returned
  => /\ local.tempDone /\ local.aqDone
     /\ (pointIn.t # "ok" \/ pointIn.a # "ok")
        => (pointOut.err # "nil" /\ pointOut.temp = 0 /\ pointOut.pm = 0)
     /\ pointIn.t # "ok" => pointOut.err = pointIn.t
     /\ (pointIn.t = "ok" /\ pointIn.a # "ok") => pointOut.err = pointIn.a
     /\ (pointIn.t = "ok" /\ pointIn.a = "ok")
        => /\ pointOut.err = "nil"
           /\ pointOut.temp = TempOf(pointIn.d)
           /\ pointOut.pm = PM25Of(pointIn.d)

\* C17's case: both calls failed, the air-quality call first, and
\* fetchDistrictData has returned.
BothFailedAqFirst ==
  /\ pointOut.returned
  /\ pointIn.t # "ok"
  /\ pointIn.a # "ok"
  /\ local.first = "aq"

\* The request fails one of the three checks of the claim: the date's
\* format, the date's range as the code has it, the destination's name.
FailsValidation ==
  \/ ~travelReq.date.ok
  \/ travelReq.date.day < 0
  \/ travelReq.date.day > ForecastDays
  \/ travelReq.dest \notin TrackedNames

\* C18: when validation fails, GetRecommendation returns the validation
\* error and issues no provider call, at any point of the call and
\* whatever the providers would have answered.
ValidationShortCircuits ==
  FailsValidation
  => /\ travelCalls = 0
     /\ \A k \in TravelCallNames : travelGot[k] = NotCalled
     /\ travelPc # "fetching"
     /\ travelOut.returned
        => travelOut.err \in {"invalid travel date format, use YYYY-MM-DD",
                              "travel date must be within the next 15 days",
                              "destination district not found"}

\* C18's case: a request for an unknown destination has been answered
\* though every provider call would have succeeded.
RejectedThoughProvidersUp ==
  /\ travelOut.returned
  /\ travelReq.dest \notin TrackedNames
  /\ travelReq.date = Day(1)
  /\ \A k \in TravelCallNames : travelReq.resp[k].ok

\* C19: a well-formed travel date passes the range check exactly when it
\* lies in [today, today + 7]; any other is rejected with the error
\* 'travel date must be within the next 7 days'.
SevenDayWindow ==
  (travelPc # "called" /\ travelReq.date.ok)
  => IF travelReq.date.day >= 0 /\ travelReq.date.day <= 7
     THEN ~travelOut.returned \/ travelOut.err \notin
            {"travel date must be within the next 7 days",
             "travel date must be within the next 15 days"}
     ELSE /\ travelOut.returned
          /\ travelOut.err = "travel date must be within the next 7 days"

\* C20: the verdict of a successful call is 'Recommended' exactly when the
\* reported temp_diff and pm25_diff are both positive, and 'Not
\* Recommended' in every other case.
VerdictIffBothPositive ==
  (travelOut.returned /\ travelOut.err = "nil")
  => /\ travelOut.recommendation \in {"Recommended", "Not Recommended"}
     /\ travelOut.recommendation = "Recommended"
        <=> (travelOut.tempDiff > 0 /\ travelOut.pm25Diff > 0)

\* C20's case: a successful call for a destination that is cleaner but
\* exactly as warm.
CleanerButEquallyWarm ==
  /\ travelOut.returned
  /\ travelOut.err = "nil"
  /\ travelOut.tempDiff = 0
  /\ travelOut.pm25Diff > 0
  /\ travelOut.recommendation = "Not Recommended"

\* C21: in every successful result temp_diff is the reported current
\* temperature minus the reported destination temperature and pm25_diff
\* the reported current PM2.5 minus the reported destination PM2.5, so a
\* positive difference means a cooler, respectively cleaner, destination.
DiffsAreCurrentMinusDestination ==
  (travelOut.returned /\ travelOut.err = "nil")
  => /\ travelOut.tempDiff = travelOut.curTemp - travelOut.destTemp
     /\ travelOut.pm25Diff = travelOut.curPM25 - travelOut.destPM25
     /\ travelOut.tempDiff > 0 <=> travelOut.destTemp < travelOut.curTemp
     /\ travelOut.pm25Diff > 0 <=> travelOut.destPM25 < travelOut.curPM25
     /\ travelOut.curTemp = Round2(travelReq.resp["curTemp"].v)
     /\ travelOut.destTemp = Round2(travelReq.resp["destTemp"].v)
     /\ travelOut.curPM25 = Round2(travelReq.resp["curPM25"].v)
     /\ travelOut.destPM25 = Round2(travelReq.resp["destPM25"].v)

\* C21's case: current 35.5 / 75.0 and destination 28.0 / 25.0 were
\* compared, giving 7.5 and 50.0.
ExampleDifferences ==
  /\ travelOut.returned
  /\ travelOut.err = "nil"
  /\ travelOut.curTemp = 3550 /\ travelOut.curPM25 = 7500
  /\ travelOut.destTemp = 2800 /\ travelOut.destPM25 = 2500
  /\ travelOut.tempDiff = 750 /\ travelOut.pm25Diff = 5000

\* |x|
Abs(x) == IF x < 0 THEN 0 - x ELSE x

\* The text holds the phrase.
Mentions(text, phrase) == \E i \in 1 .. Len(text) : text[i] = phrase

\* The phrase the claim gives for a temperature difference d (hundredths
\* of a degree).
TemperaturePhrase(d) ==
  IF Abs(d) < 100 THEN "about the same temperature"
  ELSE IF Abs(d) <= 300 THEN (IF d > 0 THEN "slightly cooler" ELSE "slightly hotter")
  ELSE (IF d > 0 THEN "significantly cooler" ELSE "significantly hotter")

\* C22: the reason of a recommendation names the destination and holds the
\* phrase for the band and direction of temp_diff: below 1 'about the same
\* temperature', 1 to 3 'slightly cooler/hotter', above 3 'significantly
\* cooler/hotter'.
ReasonClassifiesTemperature ==
  (travelOut.returned /\ travelOut.err = "nil")
  => /\ Mentions(travelOut.reason, travelReq.dest)
     /\ Mentions(travelOut.reason, TemperaturePhrase(travelOut.tempDiff))

\* The phrase the claim gives for a PM2.5 difference d (hundredths).
AirQualityPhrase(d) ==
  IF Abs(d) < 500 THEN "similar air quality"
  ELSE IF Abs(d) <= 1500 THEN (IF d > 0 THEN "better air quality" ELSE "worse air quality")
  ELSE (IF d > 0 THEN "significantly better air quality"
        ELSE "significantly worse air quality")

\* C23: the reason of a recommendation holds the phrase for the band and
\* direction of pm25_diff: below 5 'similar air quality', 5 to 15
\* 'better/worse air quality', above 15 'significantly better/worse air
\* quality'.
ReasonClassifiesAirQuality ==
  (travelOut.returned /\ travelOut.err = "nil")
  => Mentions(travelOut.reason, AirQualityPhrase(travelOut.pm25Diff))

\* The error the claim's order selects for the provider answers f: the
\* current location before the destination, the temperature before the
\* PM2.5.
SurfacedError(f) ==
  IF ~f["curTemp"].ok THEN "failed to fetch current location weather: " \o TemperatureError
  ELSE IF ~f["curPM25"].ok THEN "failed to fetch current location weather: " \o PM25Error
  ELSE IF ~f["destTemp"].ok THEN "failed to fetch destination weather: " \o TemperatureError
  ELSE "failed to fetch destination weather: " \o PM25Error

\* C24: once validation has passed, GetRecommendation returns only after
\* all four provider calls have returned, and if any of them failed it
\* returns an error and no result, the error being that of the current
\* location before the destination's and of the temperature before the
\* PM2.5's, in whatever order the calls completed.
AnyProviderFailureFails ==
  (travelOut.returned /\ ~FailsValidation)
  => /\ \A k \in TravelCallNames : travelGot[k].state \in {"ok", "error"}
     /\ (\E k \in TravelCallNames : ~travelReq.resp[k].ok)
        => travelOut = [NoTravelOut EXCEPT !.returned = TRUE,
                                           !.err = SurfacedError(travelReq.resp)]
     /\ (\A k \in TravelCallNames : travelReq.resp[k].ok) => travelOut.err = "nil"

\* C24's case: all four calls failed, the destination's PM2.5 call first
\* and the current location's temperature call last, and the call has
\* returned.
AllFailedLastToFirst ==
  /\ travelOut.returned
  /\ \A k \in TravelCallNames : travelGot[k].state = "error"
  /\ travelGot["destPM25"].at = 1
  /\ travelGot["curTemp"].at = 4

\* The values of the hour-14 entries of the series, in their order.
Hour14Values == temps(hourly.time, hourly.values, Len(hourly.time))

\* Every entry of the series has a value at its index.
EveryEntryHasValue == Len(hourly.values) >= Len(hourly.time)

\* r is a value: the mean of the hour-14 values, to the nearest hundredth.
IsMeanOfHour14(r) ==
  /\ r.err = "nil"
  /\ Abs(10 * Len(Hour14Values) * r.v - sum(Hour14Values)) <= 5 * Len(Hour14Values)

\* C25: when a series whose entries all have values holds hour-14 entries,
\* the fleet mode and the advisory mode both return the mean of the values
\* of all of them (to two decimals), and so the same value.
ReductionAveragesInBothModes ==
  (reduced.called /\ EveryEntryHasValue /\ Hour14Values # << >>)
    => /\ IsMeanOfHour14(reduced.fleet)
       /\ IsMeanOfHour14(reduced.advisory)
       /\ reduced.advisory = reduced.fleet

\* While WarmCache runs, no request is handled and the loop has not run;
\* once the server is up, WarmCache has returned and Run has moved on.
NothingServedDuringWarmUp ==
  /\ phase = "warm" =>
       \A c \in Callers \ {"main"} : pc[c] = "idle" /\ ret[c] = NoRet /\ status[c] = 0
  /\ phase = "serve" => pc["main"] = "exit"

\* C26: no request is served and the loop does not run while the warm-up
\* is running, the server is up only after WarmCache has returned, and a
\* warm-up that fails does not keep the server from starting: it never
\* ends the process.
ServerStartsAfterAnyWarmUp ==
  /\ NothingServedDuringWarmUp
  /\ pc["main"] # "panicked"

\* The JSON body lacks lat, long, the destination or the travel date.
LacksRequiredField(b) ==
  b.wellFormed /\ (~b.lat.given \/ ~b.long.given \/ ~b.dest.given \/ ~b.date.given)

\* C27: a body that lacks lat, long, the destination or the travel date is
\* answered with 400 by the handler, and the travel service is not called
\* for it.
MissingFieldRejectedByHandler ==
  LacksRequiredField(httpReq) =>
    /\ travelPc = "idle"
    /\ httpOut.written => httpOut.status = StatusBadRequest

\* C28: a caller that finds the flag set and nothing cached goes on to the
\* fleet fetch itself instead of returning, and a caller whose fetch has
\* ended returns what that fetch produced.
LateCallerFetchesItself ==
  [][\A c \in Callers :
       /\ (pc[c] = "wlock" /\ updating /\ cache = NilSlice /\ pc'[c] # "wlock")
            => (pc'[c] = "fetching" /\ ret'[c] = NoRet)
       /\ (pc[c] = "slock" /\ pc'[c] = "done")
            => (ret'[c].data = fetched[c] /\ ret'[c].err = "nil")]_vars

\* Nothing is cached and two callers are in their own fleet fetch: the
\* second passed the flag the first had set.
BothFetchingNothingCached ==
  /\ cache = NilSlice
  /\ updating
  /\ \A c \in Callers \ {"main"} : pc[c] = "fetching"

\* Caller c has started a fleet fetch in this call.
StartedFetch(c) ==
  \/ pc[c] \in {"fetching", "slock", "panicked"}
  \/ pc[c] = "done" /\ ret[c].how \in {"refresh", "panic"}

\* Caller c has returned a copy of a cached entry without fetching.
ReturnedCached(c) ==
  /\ pc[c] = "done"
  /\ ret[c].how \in {"stale", "recheck"}
  /\ ret[c].err = "nil"
  /\ ret[c].data.len > 0

\* Every racer that is past the re-check either started a fetch or returned
\* a cached entry, and once all are past it somebody has started a fetch.
RacersFetchOrReturnCached ==
  /\ \A c \in Racers : pc[c] # "wlock" => (StartedFetch(c) \/ ReturnedCached(c))
  /\ (\A c \in Racers : pc[c] # "wlock") => \E c \in Racers : StartedFetch(c)

\* A racer's refresh has ended and stored no entry.
RefreshStoredNothing ==
  \E c \in Racers : pc[c] = "done" /\ ret[c].how = "refresh" /\ ret[c].data = NilSlice

\* C29 as stated: of the callers racing on the expired entry exactly one
\* starts a fleet fetch, and each of the others returns cached data.
OneRacerFetches ==
  /\ RacersFetchOrReturnCached
  /\ Cardinality({c \in Racers : StartedFetch(c)}) <= 1

\* C29, amended: exactly one racer starts a fleet fetch and the others
\* return cached data, unless a racer's refresh ended having stored no
\* entry; only then does a second racer start a fetch of its own.
OneRacerFetchesUnlessNothingStored ==
  /\ RacersFetchOrReturnCached
  /\ Cardinality({c \in Racers : StartedFetch(c)}) > 1 => RefreshStoredNothing

\* One racer is in its fleet fetch and another has been served the stale
\* entry meanwhile.
StaleServedToLosingRacer ==
  \E c, d \in Racers :
    /\ pc[c] = "fetching"
    /\ ReturnedCached(d)
    /\ ret[d].how = "stale"

\* C30: while a fleet fetch started by the cache is in flight, the updating
\* flag is set; no refresher clears it under another refresher's fetch.
FlagSetWhileFetchInFlight ==
  (\E c \in Callers : pc[c] = "fetching") => updating

\* C31: whatever the cache returns to a caller without an error (from a
\* refresh, a hit or a stale read) has at most 10 records, is sorted by
\* (temperature, PM2.5), carries ranks 1..k in order, and consists of
\* distinct records of tracked points.
ReturnedSequenceWellFormed ==
  \A c \in Callers :
    (pc[c] = "done" /\ ret[c].err = "nil")
    => /\ Len(RetRecords(c)) <= TopN
       /\ SortedByKey(RetRecords(c))
       /\ RanksInOrder(RetRecords(c))
       /\ DistinctIds(RetRecords(c))
       /\ IdsOf(RetRecords(c)) \subseteq Districts

\* C32: the fleet fetch never gets stuck before it ends (a provider call is
\* in flight, or a goroutine is about to return, or a waiting goroutine can
\* take a slot, or every goroutine is done and the channel can be closed
\* and drained), and when it has ended the
\* collector has received exactly one outcome of every point, successes
\* and failures together, no provider call is in flight and every
\* semaphore slot is free.
FleetFetchTerminatesClean ==
  /\ fleetOut.state = "running" =>
       \/ \E d \in FleetPoints : task[d] \in {"running", "sent"}
       \/ \E d \in FleetPoints : task[d] = "spawned" /\ SlotFree
       \/ \A d \in FleetPoints : task[d] = "done"
  /\ fleetOut.state # "running" =>
       /\ semaphore = 0
       /\ results = << >>
       /\ \A d \in FleetPoints : task[d] = "done" /\ calls[d] = 0
       /\ Len(districtWeathers) + Cardinality(failed) = NumFleetPoints
       /\ \A i, j \in 1 .. Len(districtWeathers) :
            districtWeathers[i] = districtWeathers[j] => i = j
       /\ IdsOf([i \in 1 .. Len(districtWeathers) |-> [id |-> districtWeathers[i]]])
            \cup failed = FleetPoints

\* The fleet fetch has returned although every point failed.
FleetReturnedEveryPointFailed ==
  /\ fleetOut.state = "returned"
  /\ failed = FleetPoints
  /\ semaphore = 0

\* C33: once its context is cancelled the background loop starts no
\* further call of GetTopCoolestAndCleanest, and no refresh cycle, however
\* it fails, ends the loop.
LoopStopsOnlyOnCancel ==
  /\ [][(loopCancelled /\ pc["bg"] = "idle") => pc'["bg"] \in {"idle", "exit"}]_vars
  /\ [](pc["bg"] # "panicked")
  /\ [](pc["bg"] = "exit" => loopCancelled)

\* The callers that hold c.mu, for writing or for reading.
LockHolders == (IF mu.writer = "none" THEN {} ELSE {mu.writer}) \cup mu.readers

\* C34: no caller holds the cache lock while its fleet fetch runs: whoever
\* holds the lock is inside one of the three short sections, none of which
\* makes a provider call, so the checks of other callers are not kept
\* waiting by a refresh.
LockFreeDuringFetch ==
  /\ \A c \in LockHolders : pc[c] \in {"rlocked", "wlocked", "slocked"}
  /\ (mu.writer # "none") => mu.readers = {}
  /\ \A c \in Callers : pc[c] \in {"fetching", "slock"} => c \notin LockHolders

\* While one caller's fleet fetch is in flight another has taken the lock,
\* been served the stale entry and returned.
StaleReadCompletedDuringFetch ==
  \E c, d \in Callers :
    /\ pc[c] = "fetching"
    /\ pc[d] = "done"
    /\ ret[d].how = "stale"
    /\ mu = MuFree

\* C35: the cached records and the timestamp change only in the exclusive
\* section that ends a refresh, and there together (the entry becomes the
\* refresh's data, the timestamp the present time); nothing else modifies
\* either, and the timestamp never decreases.
CacheChangesOnlyInStore ==
  [][/\ (cache' # cache \/ CacheRecords' # CacheRecords \/ lastUpdated' # lastUpdated)
         => \E c \in Callers :
              /\ pc[c] = "slock"
              /\ pc'[c] = "done"
              /\ cache' = fetched[c]
              /\ lastUpdated' = now
     /\ lastUpdated' >= lastUpdated]_vars

\* The requested date is well formed and outside the range the service
\* accepts.
DateOutOfRange(r) == r.date.ok /\ (r.date.day < 0 \/ r.date.day > ForecastDays)

\* C36: the first failing check is the one reported, in the order format,
\* range, destination: a malformed date gives the format error and an
\* out-of-range date the range error whatever the destination, and
\* 'destination district not found' is only given for a well-formed date
\* in range.
ValidationOrderFixed ==
  travelOut.returned =>
    /\ ~travelReq.date.ok
         => travelOut.err = "invalid travel date format, use YYYY-MM-DD"
    /\ DateOutOfRange(travelReq)
         => travelOut.err = "travel date must be within the next 15 days"
    /\ travelOut.err = "destination district not found"
         => (travelReq.date.ok /\ ~DateOutOfRange(travelReq)
             /\ travelReq.dest \notin TrackedNames)

\* A request with a malformed date and an unknown destination has been
\* answered with the format error.
BadDateUnknownDestination ==
  /\ travelOut.returned
  /\ ~travelReq.date.ok
  /\ travelReq.dest \notin TrackedNames
  /\ travelOut.err = "invalid travel date format, use YYYY-MM-DD"

\* C37: a successful result carries the requested date, the tracked
\* point's name on the destination reading, and on the current reading the
\* name the caller gave, or 'Current Location' when the caller gave none;
\* neither name is empty.
ResultNamesAndDate ==
  (travelOut.returned /\ travelOut.err = "nil")
  => /\ travelOut.travelDate = travelReq.date
     /\ travelOut.destName = travelReq.dest
     /\ \E i \in 1 .. Len(travelReq.districts) :
          travelReq.districts[i].name = travelOut.destName
     /\ travelOut.curName = (IF httpReq.name.given /\ httpReq.name.v # ""
                             THEN httpReq.name.v ELSE "Current Location")
     /\ travelOut.curName # ""
     /\ travelOut.destName # ""

\* A caller that gave no name has received a recommendation.
UnnamedCallerAnswered ==
  /\ httpOut.written
  /\ httpOut.status = StatusOK
  /\ ~httpReq.name.given
  /\ travelOut.curName = "Current Location"

\* The positions in the service's list of the points named n.
PositionsNamed(n) ==
  {i \in 1 .. Len(travelReq.districts) : travelReq.districts[i].name = n}

\* C39: the destination of a successful result is the last point of the
\* service's list that bears the requested name, also when an earlier
\* point bears it too, and a request that passes the date checks for a
\* name some point bears fails only when a provider call fails: the
\* duplicate is not reported.
DuplicateNameResolvesToLast ==
  /\ (travelOut.returned /\ travelOut.err = "nil")
       => \E i \in PositionsNamed(travelReq.dest) :
            /\ travelOut.destId = travelReq.districts[i].id
            /\ \A j \in PositionsNamed(travelReq.dest) : j <= i
  /\ (travelOut.returned /\ travelReq.date.ok /\ ~DateOutOfRange(travelReq)
      /\ PositionsNamed(travelReq.dest) # {} /\ httpReq.providersUp)
       => travelOut.err = "nil"

\* A recommendation for a name that two points of the service's list bear.
DuplicateNameAnswered ==
  /\ travelOut.returned
  /\ travelOut.err = "nil"
  /\ Cardinality(PositionsNamed(travelReq.dest)) = 2
  /\ travelOut.destId = 3

\* The positions of the series whose timestamp has hour 14.
Hour14Positions == {i \in 1 .. Len(hourly.time) : hourly.time[i] = 14}

\* Those of them at which the value array has a value.
PairedPositions == {i \in Hour14Positions : i <= Len(hourly.values)}

\* The sum of the values at the positions I.
RECURSIVE SumAt(_)
SumAt(I) ==
  IF I = {} THEN 0
  ELSE LET i == CHOOSE k \in I : TRUE
       IN hourly.values[i] + SumAt(I \ {i})

\* C38: in both modes the reduction fails when no timestamp has hour 14,
\* yields a value whenever some hour-14 timestamp has a value at its
\* index, and that value comes from the values at the indexes of hour-14
\* timestamps: their mean in the fleet mode, one of them in the
\* date-scoped mode (to two decimals).
ReductionPairsByIndex ==
  reduced.called =>
    /\ Hour14Positions = {} => (reduced.fleet.err # "nil" /\ reduced.advisory.err # "nil")
    /\ PairedPositions # {} =>
         /\ reduced.fleet.err = "nil"
         /\ reduced.advisory.err = "nil"
         /\ Abs(10 * Cardinality(PairedPositions) * reduced.fleet.v - SumAt(PairedPositions))
              <= 5 * Cardinality(PairedPositions)
         /\ \E i \in PairedPositions :
              Abs(10 * reduced.advisory.v - hourly.values[i]) <= 5

\* A series in which one hour-14 timestamp has no value at its index and
\* another, not the first entry, has one; both modes yielded a value.
ReducedWithValueMissing ==
  /\ reduced.called
  /\ PairedPositions # {}
  /\ PairedPositions # Hour14Positions
  /\ 1 \notin PairedPositions
  /\ reduced.fleet.err = "nil"
  /\ reduced.advisory.err = "nil"

====
